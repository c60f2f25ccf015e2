---------------------------- MODULE SharedBuffer ----------------------------
(***************************************************************************)
(* What PololuRPiSlave promises (PololuRPiSlave.h:20-51): an I2C master    *)
(* and the program of the slave share a few bytes.  A write of the master  *)
(* takes effect at once, its reads come from one snapshot, the program     *)
(* works on a copy of its own, and only the bytes it has changed are       *)
(* written back, at once.                                                  *)
(***************************************************************************)
EXTENDS Integers, Sequences

CONSTANTS
  Size,        \* sizeof(BufferType)
  Values,      \* the values of a byte
  Zero,        \* the value of every byte before anybody has written
  Writes,      \* what the master sends: [at |-> index, data |-> bytes];
               \* without data it only chooses where to read
  UserWrites,  \* what the program assigns, likewise
  Fields       \* the variables the bytes stand for: [at, len, values], where
               \* values holds the byte sequences that are values of the variable

Bytes == 0 .. Size - 1

Write == [at: Bytes, data: Seq(Values)]

SizeOK == Size \in Nat /\ Size > 0 /\ Size < 256

WritesOK ==
  /\ Writes \subseteq Write /\ UserWrites \subseteq Write
  /\ \A w \in Writes \union UserWrites : w.at + Len(w.data) <= Size

Covers(w, b) == w.at <= b /\ b < w.at + Len(w.data)

\* m with the bytes of a write in place
Overlay(m, w) ==
  [b \in Bytes |-> IF Covers(w, b) THEN w.data[b - w.at + 1] ELSE m[b]]

BytesOf(f) == f.at .. f.at + f.len - 1

\* The bytes of m at a field are a value of it.
Whole(m, f) == [i \in 1 .. f.len |-> m[f.at + i - 1]] \in f.values

Avoids(w, f) == \A b \in BytesOf(f) : ~Covers(w, b)

\* A write of one side assigns a field as a whole or not at all, and no field
\* is written by both sides.
FieldsOK == \A f \in Fields :
  /\ f.at \in Bytes /\ f.len \in Nat /\ f.at + f.len <= Size
  /\ Whole([b \in Bytes |-> Zero], f)
  /\ \A w \in Writes \union UserWrites :
       \/ Avoids(w, f)
       \/ /\ \A b \in BytesOf(f) : Covers(w, b)
          /\ Whole(Overlay([b \in Bytes |-> Zero], w), f)
  /\ \/ \A w \in Writes : Avoids(w, f)
     \/ \A w \in UserWrites : Avoids(w, f)

ASSUME SizeAssumption == SizeOK
ASSUME ZeroAssumption == Zero \in Values
ASSUME WritesAssumption == WritesOK
ASSUME FieldsAssumption == FieldsOK

VARIABLES
  mem,       \* the shared data
  snapshot,  \* the data as of the master's last choice of an index
  pos,       \* where the master reads next
  out,       \* the last byte it has read
  request,   \* << >> or << the write the master is sending >>
  view,      \* the program's copy
  base,      \* the copy as it was before the program's assignments
  open       \* the program is between updateBuffer and finalizeWrites

vars == <<mem, snapshot, pos, out, request, view, base, open>>

\* m with the bytes that differ between old and new taken from new
Merge(m, old, new) ==
  [b \in Bytes |-> IF old[b] # new[b] THEN new[b] ELSE m[b]]

Init ==
  /\ mem = [b \in Bytes |-> Zero]
  /\ snapshot = mem /\ view = mem /\ base = mem
  /\ pos = 0 /\ out \in Values
  /\ request = << >>
  /\ open = FALSE

----------------------------------------------------------------------------
(* The master *)

\* It chooses the index: this is the moment its reads come from.
Begin(w) ==
  /\ request = << >>
  /\ request' = <<w>>
  /\ snapshot' = mem
  /\ pos' = w.at
  /\ UNCHANGED <<mem, out, view, base, open>>

\* The write is over and takes effect as a whole.
Apply ==
  /\ request # << >>
  /\ mem' = Overlay(mem, request[1])
  /\ request' = << >>
  /\ UNCHANGED <<snapshot, pos, out, view, base, open>>

Read ==
  /\ request = << >>
  /\ pos \in Bytes
  /\ out' = snapshot[pos]
  /\ pos' = pos + 1
  /\ UNCHANGED <<mem, snapshot, request, view, base, open>>

----------------------------------------------------------------------------
(* The program *)

Update ==
  /\ ~open
  /\ open' = TRUE
  /\ view' = mem /\ base' = mem
  /\ UNCHANGED <<mem, snapshot, pos, out, request>>

Assign(w) ==
  /\ open
  /\ view' = Overlay(view, w)
  /\ UNCHANGED <<mem, snapshot, pos, out, request, base, open>>

Publish ==
  /\ open
  /\ open' = FALSE
  /\ mem' = Merge(mem, base, view)
  /\ UNCHANGED <<snapshot, pos, out, request, view, base>>

Next ==
  \/ \E w \in Writes : Begin(w)
  \/ Apply
  \/ Read
  \/ Update
  \/ \E w \in UserWrites : Assign(w)
  \/ Publish

Spec == Init /\ [][Next]_vars

----------------------------------------------------------------------------
\* "You should never encounter inconsistent data unless both sides attempt to
\* write to the same region simultaneously" (PololuRPiSlave.h:34): neither the
\* master nor the program ever sees a variable half old and half new, when each
\* variable is written by one of them.
FieldsAreWhole == \A f \in Fields :
  /\ Whole(mem, f) /\ Whole(snapshot, f) /\ Whole(view, f)
=============================================================================
