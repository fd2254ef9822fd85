--------------------------- MODULE AgentRegistry ---------------------------
(***************************************************************************)
(* The registry an agent run is assembled from (services/agent_registry.py,*)
(* models/agents.py): one agent, its numbered versions with the tools each *)
(* one grants, and the tools, registered by hand or discovered from an MCP *)
(* server.  A session of the registry reads, then publishes; whatever it   *)
(* wrote becomes visible when it commits.  Every tool here carries the one *)
(* name the model calls, which the table keeps unique: an id of Tool is an *)
(* incarnation of that name.  Risk is what the approval policy makes of it,*)
(* whether a person must approve a call.  Prompts, models, schemas, skills *)
(* and knowledge bases are versioned the same way as the grants and are    *)
(* left out.                                                               *)
(***************************************************************************)
EXTENDS Naturals, Sequences, FiniteSets

CONSTANTS
    Sess,        \* request sessions, reused
    Tool,        \* tool ids, each used once
    First,       \* the tool the agent is created with
    None,
    MaxVersion   \* bound on published versions

ASSUME RegistryAssumption == MaxVersion \in Nat /\ First \in Tool

VARIABLES
    tool,        \* [Tool -> row of the tool]
    server,      \* the MCP server is registered
    versions,    \* Seq([no, tools]), in the order they committed
    current,     \* agent.current_version
    edit         \* [Sess -> what an edit in progress holds]

regvars == <<tool, server, versions, current, edit>>

ToolRow == [st: {"unborn", "here", "gone"}, on: BOOLEAN, risky: BOOLEAN,
            found: BOOLEAN]

Version == [no: Nat, tools: SUBSET Tool]

\* pc: read = holds the current version; numbered = and max + 1;
\*     written = inserted its row and waits for its commit.
Edit == [pc: {"idle", "read", "numbered", "written"}, tools: SUBSET Tool,
         kept: BOOLEAN, no: Nat]

NoEdit == [pc |-> "idle", tools |-> {}, kept |-> FALSE, no |-> 0]

Here == {t \in Tool : tool[t].st = "here"}

\* ToolRepository.get_by_name: the one incarnation of the name, or none.
ByName(t) == t \in Here

Unborn == [st |-> "unborn", on |-> FALSE, risky |-> TRUE, found |-> FALSE]
Gone == [st |-> "gone", on |-> FALSE, risky |-> TRUE, found |-> FALSE]

\* create_agent has published version 1, which grants First or nothing.
RegInit ==
    /\ \E r \in BOOLEAN :
          tool = [t \in Tool |-> IF t # First THEN Unborn
                    ELSE [st |-> "here", on |-> TRUE, risky |-> r, found |-> FALSE]]
    /\ server = FALSE
    /\ \E ts \in SUBSET {First} : versions = <<[no |-> 1, tools |-> ts]>>
    /\ current = 1
    /\ edit = [s \in Sess |-> NoEdit]

----------------------------------------------------------------------------
(* Tools.  A name in use refuses another row, by the look-up or the index. *)

RegisterTool(t, r) ==
    /\ tool[t].st = "unborn"
    /\ Here = {}
    /\ tool' = [tool EXCEPT ![t] = [st |-> "here", on |-> TRUE, risky |-> r,
                                    found |-> FALSE]]
    /\ UNCHANGED <<server, versions, current, edit>>

\* Operator columns only; type and schema are fixed for the row's life.
UpdateTool(t, on, r) ==
    /\ t \in Here
    /\ tool' = [tool EXCEPT ![t] = [st |-> "here", on |-> on, risky |-> r,
                                    found |-> tool[t].found]]
    /\ UNCHANGED <<server, versions, current, edit>>

\* Mutant: the grants are left behind.
NothingRevoked(ts) == versions

\* The rows of agent_tools that point at a deleted tool go with it.
Revoked(ts) == [i \in DOMAIN versions |->
                  [no |-> versions[i].no, tools |-> versions[i].tools \ ts]]

\* Mutant: no foreign key from a grant to its tool.
HeldByNobody(ts) == FALSE

\* An uncommitted grant holds a key lock on its tool until its session ends.
HeldByEdit(ts) == \E s \in Sess : edit[s].pc = "written" /\ edit[s].tools \cap ts # {}

Drop(ts) ==
    /\ ~HeldByEdit(ts)
    /\ tool' = [t \in Tool |-> IF t \in ts THEN Gone ELSE tool[t]]
    /\ versions' = Revoked(ts)

DeleteTool(t) ==
    /\ t \in Here
    /\ Drop({t})
    /\ UNCHANGED <<server, current, edit>>

----------------------------------------------------------------------------
(* MCP servers.                                                            *)

RegisterServer ==
    /\ ~server
    /\ server' = TRUE
    /\ UNCHANGED <<tool, versions, current, edit>>

\* A name the server offers and nobody holds is catalogued, disabled and HIGH;
\* a name taken by another is skipped; what was found before keeps its
\* operator's decisions (no change here).
Discover(t) ==
    /\ server
    /\ tool[t].st = "unborn"
    /\ Here = {}
    /\ tool' = [tool EXCEPT ![t] = [st |-> "here", on |-> FALSE, risky |-> TRUE,
                                    found |-> TRUE]]
    /\ UNCHANGED <<server, versions, current, edit>>

DeleteServer ==
    /\ server
    /\ server' = FALSE
    /\ Drop({t \in Here : tool[t].found})
    /\ UNCHANGED <<current, edit>>

----------------------------------------------------------------------------
(* Publishing a version: update_agent calls create_version, which reads the*)
(* current version, asks for max + 1, checks the tools, inserts, and moves *)
(* current_version.                                                        *)

EditGoes(s, e) == edit' = [edit EXCEPT ![s] = e]

\* get_current: omitted grants (kept) inherit from what is read here.
ReadCurrent(s, ts, kept) ==
    /\ edit[s].pc = "idle"
    /\ EditGoes(s, [pc |-> "read", no |-> 0, kept |-> kept,
                 tools |-> IF kept THEN versions[current].tools ELSE ts])
    /\ UNCHANGED <<tool, server, versions, current>>

NextVersion(s) ==
    /\ edit[s].pc = "read"
    /\ Len(versions) < MaxVersion
    /\ EditGoes(s, [pc |-> "numbered", no |-> Len(versions) + 1,
                 kept |-> edit[s].kept, tools |-> edit[s].tools])
    /\ UNCHANGED <<tool, server, versions, current>>

\* Mutant: no unique constraint on (agent_id, version).
NumberTrusted(s) == TRUE

\* The insert waits for another of the same number, then meets it or not.
NumberAdmits(s) ==
    /\ \A r \in Sess : ~(edit[r].pc = "written" /\ edit[r].no = edit[s].no)
    /\ \A i \in DOMAIN versions : versions[i].no # edit[s].no

InsertVersion(s) ==
    /\ edit[s].pc = "numbered"
    /\ edit[s].tools \subseteq Here
    /\ NumberAdmits(s)
    /\ EditGoes(s, [pc |-> "written", no |-> edit[s].no, kept |-> edit[s].kept,
                 tools |-> edit[s].tools])
    /\ UNCHANGED <<tool, server, versions, current>>

Publish(s) ==
    /\ edit[s].pc = "written"
    /\ versions' = Append(versions, [no |-> edit[s].no, tools |-> edit[s].tools])
    /\ current' = edit[s].no
    /\ EditGoes(s, NoEdit)
    /\ UNCHANGED <<tool, server>>

\* A refusal, an IntegrityError, a lost connection: the session rolls back.
AbandonEdit(s) ==
    /\ edit[s].pc # "idle"
    /\ EditGoes(s, NoEdit)
    /\ UNCHANGED <<tool, server, versions, current>>

ToolSteps ==
    \/ \E t \in Tool, r \in BOOLEAN : RegisterTool(t, r)
    \/ \E t \in Tool, on, r \in BOOLEAN : UpdateTool(t, on, r)

ServerSteps ==
    \/ RegisterServer
    \/ \E t \in Tool : Discover(t)
    \/ DeleteServer

Edits(s) ==
    \/ \E ts \in SUBSET Tool : ReadCurrent(s, ts, FALSE)
    \/ ReadCurrent(s, {}, TRUE)
    \/ NextVersion(s) \/ InsertVersion(s) \/ Publish(s) \/ AbandonEdit(s)

----------------------------------------------------------------------------
(* Properties.                                                             *)

RegTypeOK ==
    /\ tool \in [Tool -> ToolRow]
    /\ server \in BOOLEAN
    /\ versions \in Seq(Version)
    /\ current \in 1 .. Len(versions)
    /\ edit \in [Sess -> Edit]

\* Two administrators may read the same highest number at once
\* (create_version): versions still count 1, 2, 3 in the order they were
\* published, and the current one is the last, so get_current finds one row.
VersionsNumbered ==
    /\ \A i \in DOMAIN versions : versions[i].no = i
    /\ current = Len(versions)

\* A version is checked for dangling tools when it is written, and a tool may
\* be deleted at any moment around it (_create_version, delete_tool): no
\* published version ever grants a tool that is not there.
GrantsAreAlive == \A i \in DOMAIN versions : versions[i].tools \subseteq Here
=============================================================================
