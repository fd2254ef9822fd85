------------------------------ MODULE Chunking ------------------------------
(***************************************************************************)
(* How a parsed document is cut into passages (services/chunking.py):      *)
(* paragraphs, then sentences, then a hard cut, packed greedily with an    *)
(* overlap carried over.                                                   *)
(* A text is a sequence of characters [c, at]: a class -- "w" of a word,   *)
(* "stop" ends a sentence, "sp" a space, "nl" a line break -- and the      *)
(* place it has in the document, so that what a chunk repeats or leaves    *)
(* out can be told.  Characters the code inserts have the place 0.         *)
(* The two regular expressions are maximal runs of white space with a      *)
(* condition: two line breaks in it, or a stop before it.                  *)
(***************************************************************************)
EXTENDS Integers, SequencesExt

Blank(ch) == ch.c \in {"sp", "nl"}
Filled(ch) == ~Blank(ch)

\* str.strip and str.lstrip.
LeftStrip(t) ==
    LET first == SelectInSeq(t, Filled) IN
    IF first = 0 THEN <<>> ELSE SubSeq(t, first, Len(t))
Strip(t) == SubSeq(LeftStrip(t), 1, SelectLastInSeq(LeftStrip(t), Filled))

Space == [c |-> "sp", at |-> 0]
Gap == <<[c |-> "nl", at |-> 0], [c |-> "nl", at |-> 0]>>

----------------------------------------------------------------------------
(* Splitting.                                                              *)

\* The places of the maximal run of white space that i is in.
RunAt(t, i) == {j \in DOMAIN t : \A k \in DOMAIN t : (i <= k /\ k <= j) \/ (j <= k /\ k <= i)
                                                        => Blank(t[k])}

\* re.split at the places of white space a pattern takes; what it leaves at an end
\* is stripped.
SplitAt(t, broken) ==
    LET starts == {i \in DOMAIN t \ broken : i = 1 \/ i - 1 \in broken}
        end(i) == CHOOSE j \in DOMAIN t : /\ j >= i
                                          /\ i .. j \cap broken = {}
                                          /\ j = Len(t) \/ j + 1 \in broken
        sorted == SetToSortSeq(starts, LAMBDA i, j : i < j)
        pieces == [n \in DOMAIN sorted |-> Strip(SubSeq(t, sorted[n], end(sorted[n])))] IN
    SelectSeq(pieces, LAMBDA p : p # <<>>)

Paragraphs(t) ==
    SplitAt(t, {n \in DOMAIN t : Blank(t[n]) /\ \E i, j \in RunAt(t, n) :
                                    i # j /\ t[i].c = "nl" /\ t[j].c = "nl"})

Sentences(t) ==
    SplitAt(t, {n \in DOMAIN t : Blank(t[n]) /\ \E i \in RunAt(t, n) :
                                    i - 1 \in DOMAIN t /\ t[i - 1].c = "stop"})

----------------------------------------------------------------------------
(* Cutting to size.                                                        *)

\* _hard_cut: at the last space inside the budget, which must not be the first
\* character; a line break is not looked for.
CutAt(t, size) ==
    LET spaces == {i \in 2 .. size : t[i].c = "sp"} IN
    IF spaces = {} THEN size ELSE (CHOOSE i \in spaces : \A j \in spaces : j <= i) - 1

RECURSIVE HardCut(_, _)
HardCut(t, size) ==
    IF t = <<>> THEN <<>>
    ELSE IF Len(t) <= size THEN <<t>>
    ELSE LET cut == CutAt(t, size) IN
         <<SubSeq(t, 1, cut)>> \o HardCut(LeftStrip(SubSeq(t, cut + 1, Len(t))), size)

\* _split_sentences: a sentence that does not fit pushes out what was gathered,
\* which is nothing if it is the first and exactly as long as the budget.
AddSentence(acc, s, size) ==
    CASE Len(s) > size ->
           [out |-> acc.out \o (IF acc.cur = <<>> THEN <<>> ELSE <<acc.cur>>) \o HardCut(s, size),
            cur |-> <<>>]
      [] Len(s) <= size /\ Len(acc.cur) + Len(s) + 1 <= size ->
           [acc EXCEPT !.cur = Strip(@ \o <<Space>> \o s)]
      [] OTHER -> [out |-> Append(acc.out, acc.cur), cur |-> s]

SplitSentences(t, size) ==
    LET all == FoldLeft(LAMBDA acc, s : AddSentence(acc, s, size),
                        [out |-> <<>>, cur |-> <<>>], Sentences(t)) IN
    IF all.cur = <<>> THEN all.out ELSE Append(all.out, all.cur)

----------------------------------------------------------------------------
(* Packing.                                                                *)

\* _tail: from the first space of the last characters on, if there is one.
OverlapTail(t, overlap) ==
    IF overlap <= 0 \/ Len(t) <= overlap THEN t
    ELSE LET tail == SubSeq(t, Len(t) - overlap + 1, Len(t))
             space == SelectInSeq(tail, LAMBDA ch : ch.c = "sp") IN
         SubSeq(tail, space + 1, Len(tail))

\* The next chunk, begun with the tail of the one just emitted if both fit.
Begun(emitted, piece, size, overlap) ==
    LET whole == Strip(OverlapTail(emitted, overlap) \o Gap \o piece) IN
    IF overlap = 0 \/ Len(whole) > size THEN piece ELSE whole

AddPiece(acc, piece, size, overlap) ==
    LET candidate == IF acc.cur = <<>> THEN piece ELSE acc.cur \o Gap \o piece IN
    CASE Len(candidate) <= size -> [acc EXCEPT !.cur = candidate]
      [] Len(candidate) > size /\ acc.cur = <<>> -> [acc EXCEPT !.cur = piece]
      [] OTHER -> [out |-> Append(acc.out, acc.cur),
                   cur |-> Begun(acc.cur, piece, size, overlap)]

Pack(pieces, size, overlap) ==
    LET all == FoldLeft(LAMBDA acc, p : AddPiece(acc, p, size, overlap),
                        [out |-> <<>>, cur |-> <<>>], pieces) IN
    IF all.cur = <<>> THEN all.out ELSE Append(all.out, all.cur)

----------------------------------------------------------------------------
(* The whole.                                                              *)

\* _split.
Split(t, size, overlap) ==
    LET text == Strip(t)
        PiecesOf(p) == IF Len(p) <= size THEN <<p>> ELSE SplitSentences(p, size) IN
    CASE text = <<>> -> <<>>
      [] Len(text) \in 1 .. size -> <<text>>
      [] OTHER -> Pack(FlattenSeq([i \in DOMAIN Paragraphs(text) |-> PiecesOf(Paragraphs(text)[i])]),
                       size, overlap)

\* An overlap of half a chunk at most.
Overlap(size, overlap) == IF overlap < size \div 2 THEN overlap ELSE size \div 2

\* chunk_segments, of one segment: segments are never merged.
Chunks(t, size, overlap) ==
    SelectSeq([i \in DOMAIN Split(t, size, Overlap(size, overlap)) |->
                  Strip(Split(t, size, Overlap(size, overlap))[i])],
              LAMBDA c : c # <<>>)
=============================================================================
