----------------------------- MODULE MCRPiSlave -----------------------------
(***************************************************************************)
(* Instances of RPiSlave: four bytes, a variable of two bytes for each     *)
(* side.  Two of the values share a byte, so that a write may change only  *)
(* a part of the bytes.                                                    *)
(***************************************************************************)
EXTENDS RPiSlave

MCSize == 4
MCValues == 0 .. 2
MCWriteMax == 2

Variable(at) == [at |-> at, len |-> 2, values |-> {<<0, 0>>, <<1, 2>>, <<1, 1>>}]
MCFields == {Variable(0), Variable(2)}

\* The master writes the first variable and reads the second; it has also a write
\* with nothing but an index.
MCWrites == {[at |-> 0, data |-> <<1, 2>>], [at |-> 0, data |-> <<1, 1>>],
             [at |-> 2, data |-> << >>]}
MCUserWrites == {[at |-> 2, data |-> <<1, 2>>], [at |-> 2, data |-> <<1, 1>>]}
=============================================================================
