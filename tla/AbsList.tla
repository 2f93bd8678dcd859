------------------------------- MODULE AbsList -------------------------------
(***************************************************************************)
(* What a list promises: it is a sequence, and a generator over it         *)
(* remembers a place that survives any change of the sequence.  Forward,   *)
(* the place is an index; backward, it is the distance from the end.       *)
(***************************************************************************)
EXTENDS Integers, SequencesExt

CONSTANTS Val, Null

VARIABLES
  seq,     \* the contents
  place,   \* of the generator: [way, at], or Null
  out      \* what the last step gave

absVars == <<seq, place, out>>

Init == seq \in Seq(Val) /\ place = Null /\ out = Null

Put(v)  == seq' = Append(seq, v) /\ out' = Null /\ UNCHANGED place
Push(v) == seq' = <<v>> \o seq /\ out' = Null /\ UNCHANGED place
Get  == seq # <<>> /\ seq' = Tail(seq) /\ out' = Head(seq) /\ UNCHANGED place
Pull == seq # <<>> /\ seq' = Front(seq) /\ out' = Last(seq) /\ UNCHANGED place
Insert(i, v) == seq' = InsertAt(seq, i, v) /\ out' = Null /\ UNCHANGED place
Del(i)  == seq' = RemoveAt(seq, i) /\ out' = Null /\ UNCHANGED place
Clear   == seq' = <<>> /\ out' = Null /\ UNCHANGED place
Assign(i, v) == seq' = ReplaceAt(seq, i, v) /\ out' = Null /\ UNCHANGED place

\* A section, or the list with another at its end, is a new list.
Section(i, n) == place = Null /\ seq' = SubSeq(seq, i, i + n - 1) /\ out' = Null /\ UNCHANGED place
Concat(s) == place = Null /\ seq' = seq \o s /\ out' = Null /\ UNCHANGED place

\* The generator gives what is at its new place, or ends outside the list.
At(p) == IF p.way = "next" THEN p.at ELSE Len(seq) - p.at
Go(p) ==
  /\ IF At(p) \in DOMAIN seq THEN place' = p /\ out' = seq[At(p)]
     ELSE place' = Null /\ out' = Null
  /\ UNCHANGED seq

Begin == place = Null /\ (Go([way |-> "next", at |-> 1]) \/ Go([way |-> "prev", at |-> 0]))
Step  == place # Null /\ Go([place EXCEPT !.at = @ + 1])

Next ==
  \/ \E v \in Val : Put(v) \/ Push(v)
  \/ Get \/ Pull \/ Clear
  \/ \E i \in DOMAIN seq : Del(i) \/ \E v \in Val : Insert(i, v) \/ Assign(i, v)
  \/ \E i \in 1 .. Len(seq) + 1 : \E n \in 0 .. Len(seq) + 1 - i : Section(i, n)
  \/ \E s \in {seq, <<>>} \cup {<<v>> : v \in Val} : Concat(s)
  \/ Begin \/ Step

Spec == Init /\ [][Next]_absVars
==============================================================================
