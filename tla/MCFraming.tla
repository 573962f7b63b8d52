----------------------------- MODULE MCFraming -----------------------------
(***************************************************************************)
(* Instances of Framing for TLC: objects of two to five bytes, flat, nested *)
(* or with blanks inside, and what may stand between them.                 *)
(***************************************************************************)
EXTENDS Framing

Flat == <<OPEN, CH, CLOSE>>
Spaced == <<OPEN, BLANK, CLOSE, BLANK>>
Nested == <<OPEN, OPEN, CLOSE, CH, CLOSE>>

MCObject == {Flat, Spaced, Nested}
FlatOrNested == {Flat, Nested}

MCJunk == {<<CLOSE>>, <<BLANK>>, <<CH>>}
NoJunk == {}

\* What the theorems about the order of the objects assume of them, and that an object
\* without its blanks is what selecting the other bytes gives.
ASSUME MCObjects ==
  /\ ObjectsOnly
  /\ \A o \in Object : Stripped(o) = SelectSeq(o, LAMBDA b : b # BLANK)
=============================================================================
