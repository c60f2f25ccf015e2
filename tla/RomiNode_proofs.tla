---------------------------- MODULE RomiNode_proofs ----------------------------
(***************************************************************************)
(* What the node reads from the slave, for every layout of the buffer, each *)
(* set of writes and any number of failed transactions.                    *)
(*                                                                         *)
(* The argument: the slave takes a copy when it receives an index and      *)
(* sends from it until the next one, so that the bytes of a reading are of *)
(* one moment (Chosen, Underway); a command moves the index, and the node  *)
(* cannot tell, but moved does.                                            *)
(***************************************************************************)
EXTENDS RomiNode, TLAPS

\* What has been read since the index was written: the first bytes of the
\* snapshot from there on, and the master's place behind them.
Chosen ==
  expected = [i \in 1 .. Reading.len |-> snapshot[Reading.at + i - 1]]

Underway ==
  /\ Chosen
  /\ got \in Seq({expected[i] : i \in 1 .. Reading.len})
  /\ Len(got) <= Reading.len
  /\ pos = Reading.at + Len(got)
  /\ \A i \in 1 .. Len(got) : got[i] = expected[i]

\* One write at a time is on the bus; a reading is not under way while its own
\* index is, and a command that came in between is known to have moved it.
ReadingInv ==
  /\ selected => polling \in {"battery", "pose"}
  /\ ~selected => got = << >>
  /\ sender = "poll" =>
       /\ request # << >> /\ ~selected /\ polling \in {"battery", "pose"}
       /\ Chosen /\ pos = Reading.at
  /\ sender = "callback" => request # << >> /\ (selected => moved)
  /\ selected /\ ~moved => Underway

LEMMA ReadingFits == Reading.at \in Nat /\ Reading.len \in Nat
<1>1. Reading \in Fields
  BY ReadingsAssumption DEF Reading
<1>2. Bytes \subseteq Nat
  BY SizeAssumption DEF Bytes, SizeOK
<1> QED BY <1>1, <1>2, FieldsAssumption DEF FieldsOK

LEMMA ReadingStep ==
  ASSUME ReadingInv, [NodeNext]_all_vars
  PROVE  ReadingInv'
<1> USE DEF vars
<1>1. CASE write_index
  <2>1. /\ request = << >> /\ request' # << >> /\ snapshot' = mem
        /\ pos' = Reading.at /\ expected' = Slice(mem, Reading)
        /\ UNCHANGED <<polling, selected, got, moved>>
        /\ ~selected /\ polling \in {"battery", "pose"} /\ sender' = "poll"
    BY <1>1 DEF write_index, Begin, IndexOf
  <2>2. UNCHANGED Reading
    BY <2>1 DEF Reading
  <2>3. Chosen'
    BY <2>1, <2>2 DEF Chosen, Slice
  <2> QED BY <2>1, <2>2, <2>3 DEF ReadingInv
<1>2. CASE index_written
  <2>1. /\ sender = "poll" /\ sender' = "none" /\ selected' = TRUE /\ moved' = FALSE
        /\ UNCHANGED <<polling, got, expected, snapshot, pos>>
    BY <1>2 DEF index_written, Apply
  <2>2. UNCHANGED Reading
    BY <2>1 DEF Reading
  <2>3. Underway'
    BY <2>1, <2>2, ReadingFits DEF ReadingInv, Underway, Chosen
  <2> QED BY <2>1, <2>3 DEF ReadingInv
<1>3. CASE read_byte
  <2>1. /\ selected /\ Len(got) < Reading.len /\ request = << >>
        /\ got' = Append(got, snapshot[pos]) /\ pos' = pos + 1
        /\ UNCHANGED <<polling, selected, sender, expected, moved, snapshot, request>>
    BY <1>3 DEF read_byte, Read
  <2>2. UNCHANGED Reading
    BY <2>1 DEF Reading
  <2>3. ASSUME ~moved PROVE Underway'
    <3>. DEFINE n == Len(got)
                S == {expected[i] : i \in 1 .. Reading.len}
    <3>1. /\ Chosen /\ got \in Seq(S) /\ pos = Reading.at + n
          /\ \A i \in 1 .. n : got[i] = expected[i]
      BY <2>1, <2>3 DEF ReadingInv, Underway
    <3>2. n \in Nat /\ n + 1 \in 1 .. Reading.len
      BY <2>1, <3>1, ReadingFits
    <3>3. snapshot[pos] = expected[n + 1]
      BY <3>1, <3>2, ReadingFits DEF Chosen
    <3>4. expected[n + 1] \in S
      BY <3>2
    <3> HIDE DEF S
    <3>5. /\ got' \in Seq(S) /\ Len(got') = n + 1
          /\ \A i \in 1 .. n + 1 : got'[i] = expected[i]
      BY <2>1, <3>1, <3>2, <3>3, <3>4
    <3>6. pos' = Reading.at + Len(got')
      BY <2>1, <3>1, <3>2, <3>5, ReadingFits
    <3>7. Chosen'
      BY <2>1, <2>2, <3>1 DEF Chosen
    <3> QED BY <2>1, <2>2, <3>2, <3>5, <3>6, <3>7 DEF Underway, S
  <2> QED BY <2>1, <2>3 DEF ReadingInv
<1>4. CASE read_done \/ read_fails
  <2>1. /\ ~selected' /\ got' = << >>
        /\ sender # "poll" /\ UNCHANGED <<sender, request>>
    BY <1>4 DEF read_done, read_fails, ReadingInv
  <2> QED BY <2>1 DEF ReadingInv
<1>5. CASE publish
  <2>1. ~selected /\ sender # "poll" /\ UNCHANGED <<selected, got, sender, request>>
    BY <1>5 DEF publish, ReadingInv
  <2> QED BY <2>1 DEF ReadingInv
<1>6. CASE write_command
  <2>1. /\ request' # << >> /\ sender' = "callback" /\ moved'
        /\ UNCHANGED <<polling, selected, got>>
    BY <1>6 DEF write_command, Begin
  <2> QED BY <2>1 DEF ReadingInv
<1>7. CASE command_written
  <2>1. /\ sender = "callback" /\ sender' = "none"
        /\ UNCHANGED <<polling, selected, got, moved>>
    BY <1>7 DEF command_written
  <2> QED BY <2>1 DEF ReadingInv
<1>8. CASE control_board \/ UNCHANGED all_vars
  <2>1. UNCHANGED <<snapshot, pos, request, polling, selected, got, sender, expected, moved>>
    BY <1>8 DEF control_board, Update, Assign, Publish, node_vars,
                all_vars
  <2> QED BY <2>1 DEF ReadingInv, Underway, Chosen, Reading
<1> QED
  BY <1>1, <1>2, <1>3, <1>4, <1>5, <1>6, <1>7, <1>8 DEF NodeNext

\* A reading returns the variable asked for, as it was when its index was written
\* (romi32U4_driver.py:97), whatever the program of the slave does meanwhile and
\* whatever has failed before, for every layout of the buffer.
THEOREM ReadingsTheirs == NodeSpec => []ReadingsAreTheirs
<1>1. NodeInit => ReadingInv
  BY DEF NodeInit, ReadingInv
<1>2. ReadingInv /\ [NodeNext]_all_vars => ReadingInv'
  BY ReadingStep
<1>3. ReadingInv => ReadingsAreTheirs
  <2> SUFFICES ASSUME ReadingInv, selected, ~moved
               PROVE  got = SubSeq(expected, 1, Len(got))
    BY DEF ReadingsAreTheirs
  <2> DEFINE S == {expected[i] : i \in 1 .. Reading.len}
  <2>1. /\ Chosen /\ got \in Seq(S) /\ Len(got) <= Reading.len
        /\ \A i \in 1 .. Len(got) : got[i] = expected[i]
    BY DEF ReadingInv, Underway
  <2>2. Len(got) \in 0 .. Reading.len /\ got = [i \in 1 .. Len(got) |-> got[i]]
    <3> HIDE DEF S
    <3> QED BY <2>1, ReadingFits
  <2>3. SubSeq(expected, 1, Len(got)) = [i \in 1 .. Len(got) |-> expected[i]]
    BY <2>1, <2>2, ReadingFits DEF Chosen
  <2> QED BY <2>1, <2>2, <2>3
<1> QED BY <1>1, <1>2, <1>3, PTL DEF NodeSpec
=============================================================================
