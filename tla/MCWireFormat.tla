---------------------------- MODULE MCWireFormat ----------------------------
(* Instances of WireFormat for TLC. *)
EXTENDS WireFormat

MCData(n) == [k \in 1 .. n |-> 7]

\* Frames of every class, with values on either side of every change of size.
MCFrames ==
    {StreamFrame(64, MCData(n), offset, offset = 16383 <=> n = 63, n = 63) :
        n \in {0, 63}, offset \in {0, 16383}}
    \cup {[id |-> 16, fields |-> <<1073741823>>], [id |-> 27, fields |-> <<63>>]}
    \cup {[id |-> id, fields |-> <<20>>] : id \in {18, 20, 22, 25, 26}}
    \cup {[id |-> id, fields |-> <<4, 16382>>] : id \in {5, 17, 21}}
    \cup {[id |-> 4, fields |-> <<4, 0, 16384>>], [id |-> 6, fields |-> <<64, MCData(3)>>],
          [id |-> 7, fields |-> <<MCData(2)>>], [id |-> 1, fields |-> <<>>],
          [id |-> 28, fields |-> <<1, 18, MCData(64)>>], [id |-> 29, fields |-> <<1, MCData(3)>>],
          [id |-> 24, fields |-> <<1, 0, <<>>, MCData(16)>>], [id |-> 0, fields |-> <<2>>],
          [id |-> 3, fields |-> <<64, <<From(9, 69), From(4, 6), From(2, 2)>>, 1, 63, 16384>>],
          [id |-> 30, fields |-> <<>>]}
=============================================================================
