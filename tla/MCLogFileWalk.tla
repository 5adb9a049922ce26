--------------------------- MODULE MCLogFileWalk ---------------------------
(***************************************************************************)
(* Files of up to MaxSpans spans: whole blocks, every torn prefix of one,  *)
(* and blocks with a garbled length.  One block has a marker in its        *)
(* content.                                                                *)
(***************************************************************************)
EXTENDS LogFileWalk

CONSTANT MaxSpans

Small == [type |-> AvroData, instant |-> 1, target |-> 0,
          content |-> <<7, 8>>]
Tricky == [type |-> AvroData, instant |-> 2, target |-> 0,
           content |-> <<61, 61, 62, 63, 9>>]
Undo == [type |-> Command, instant |-> 3, target |-> 1, content |-> << >>]
Other == [type |-> HfileData, instant |-> 2, target |-> 0,
          content |-> <<9>>]

(* Its content looks like the trailing length of a block like Tricky.      *)
Echo == [type |-> AvroData, instant |-> 2, target |-> 0,
         content |-> Word(BodyLen(Tricky) + MagicLen) \o <<5>>]

WholeSpan(b) == [block |-> b, len |-> BodyLen(b),
                 kept |-> Len(Encode(b, BodyLen(b)))]
Torn(b) == {[WholeSpan(b) EXCEPT !.kept = k] :
               k \in 1 .. WholeSpan(b).kept - 1}
Garbled(b) == {[WholeSpan(b) EXCEPT !.len = n] :
               n \in {0, 1, BodyLen(b) - 1, BodyLen(b) + 1,
                      2 * BodyLen(b) + MagicLen + WordLen, WordMax}}

AnySpan == {WholeSpan(b) : b \in {Small, Undo, Other, Tricky, Echo}}
           \cup Torn(Tricky) \cup Garbled(Small)

(* What the longer files are made of: the blocks that a scan tells apart,  *)
(* a block torn in the middle and one torn inside its length.              *)
FewSpans == {WholeSpan(b) : b \in {Small, Undo, Tricky}}
            \cup {s \in Torn(Tricky) : s.kept \in {4, 12}}

Files == UNION ({[1 .. n -> AnySpan] : n \in 0 .. 2}
                \cup {[1 .. n -> FewSpans] : n \in 3 .. MaxSpans})

MCInputs ==
    {[spans |-> s, eager |-> FALSE, range |-> {}] : s \in Files}
    \cup {[spans |-> s, eager |-> TRUE, range |-> r] :
             s \in Files, r \in {{1, 2, 3}, {1, 3}}}

(* Each of these files is one the theorems about the walk speak of.        *)
ASSUME MCLogFileWalkLegible ==
    \A s \in Files : Legible(FileOf(s), s)
=============================================================================
