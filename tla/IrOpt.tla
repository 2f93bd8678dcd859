-------------------------------- MODULE IrOpt --------------------------------
(***************************************************************************)
(* The optimiser of intermediate code (oit/ir.c optimize and below): jumps *)
(* are shortened, unreachable chunks dropped, chunks referred to once are  *)
(* merged into the chunk that jumps to them, temporaries that only ever    *)
(* hold one operand are replaced by it, and marks that are repeated, or    *)
(* never cut back to, are removed.                                         *)
(*                                                                         *)
(* The source keeps chunks in an array and also moves them so that a       *)
(* trailing jump to the next chunk can be left out. Here a chunk keeps its *)
(* trailing jump; "adjacent" says whether a chunk is taken to be followed  *)
(* directly by the one it jumps to, which is what lets the peephole see    *)
(* two instructions of different chunks next to each other.                *)
(***************************************************************************)
EXTENDS IrGen

Locs(code) == UNION {{<<l, j>> : j \in DOMAIN code[l]} : l \in DOMAIN code}
At(code, p) == code[p[1]][p[2]]
Map(code, F(_)) == [l \in DOMAIN code |-> [j \in DOMAIN code[l] |-> F(code[l][j])]]
Delete(code, p) == [code EXCEPT ![p[1]] = RemoveAt(@, p[2])]
Without(code, l) == [k \in DOMAIN code \ {l} |-> code[k]]

HasLabel(ins) == ins.lab # <<>>
Refs(code, l) == Cardinality({p \in Locs(code) : At(code, p).lab = l})

\* edit_labels
EditLabels(code, old, new) ==
  Map(code, LAMBDA ins : IF ins.lab = old THEN [ins EXCEPT !.lab = new] ELSE ins)

(***************************************************************************)
(* optimize_goto1, optimize_goto_chain, remove_unseen_chunks.              *)
(***************************************************************************)
\* Where a jump to l ends up; a label that has no chunk is a dead end, at which
\* the source gives up.
RECURSIVE Chain(_, _, _)
Chain(code, l, circle) ==
  IF l \notin DOMAIN code \/ l \in circle THEN l
  ELSE LET ins == code[l][1]
       IN IF ins.i = "Goto" THEN Chain(code, ins.lab, circle \cup {l}) ELSE l

LeadsTo(ins) == IF HasLabel(ins) THEN {ins.lab} ELSE {}

RECURSIVE Seen(_, _, _)
Seen(code, found, new) ==
  LET next == UNION {LeadsTo(At(code, p)) : p \in Locs([k \in new \cap DOMAIN code |-> code[k]])}
                \ (found \cup new)
  IN IF next = {} THEN found \cup new ELSE Seen(code, found \cup new, next)

Shortened(code) ==
  LET dest == [l \in {At(code, p).lab : p \in Locs(code)} \ {<<>>} |-> Chain(code, l, {})]
      short == Map(code, LAMBDA ins : IF HasLabel(ins) THEN [ins EXCEPT !.lab = dest[ins.lab]]
                                      ELSE ins)
      seen == Seen(short, {}, {Entry})
  IN [code |-> [l \in seen \cap DOMAIN code |-> short[l]], quit |-> ~(seen \subseteq DOMAIN code)]

\* A slot number that is none is taken for an index.
StraySlots(code) == {p \in Locs(code) : At(code, p).i = "IGoto" /\ At(code, p).tl[1] < 0}

(***************************************************************************)
(* optimize_goto, first part: a chunk that is jumped to from one place, at *)
(* the end of another chunk, is put there.                                 *)
(***************************************************************************)
Mergeable(code) ==
  {l \in DOMAIN code :
     LET last == Last(code[l])
     IN last.i = "Goto" /\ last.lab \notin {l, Entry} /\ Refs(code, last.lab) = 1}

RECURSIVE Merged(_)
Merged(code) ==
  LET m == Mergeable(code)
  IN IF m = {} THEN code
     ELSE LET l == CHOOSE k \in m : TRUE
              other == Last(code[l]).lab
          IN Merged(Without([code EXCEPT ![l] = Front(@) \o code[other]], other))

(***************************************************************************)
(* fold_tmps. visit_vars tells which variables an instruction sets; it     *)
(* counts those of a limit and of the scan instructions as set.            *)
(* (tmp_foldable also refuses globals that are only readable here; no      *)
(* program has one: see the README.)                                       *)
(***************************************************************************)
SetBy(ins) ==
  {ins.dst} \cup
    (IF ins.i \in {"ScanSave", "ScanSwap", "Limit"} THEN {ins.args[k] : k \in DOMAIN ins.args}
     ELSE {})

IsTmp(v) == v[1] = "Tmp"
TimesSet(code, v) == Cardinality({p \in Locs(code) : v \in SetBy(At(code, p))})

Foldable(code) ==
  {p \in Locs(code) : LET ins == At(code, p)
                      IN /\ ins.i = "Move"
                         /\ IsTmp(ins.dst)
                         /\ ~IsTmp(ins.args[1])
                         /\ TimesSet(code, ins.dst) = 1}

RECURSIVE Folded(_)
Folded(code) ==
  LET f == Foldable(code)
  IN IF f = {} THEN code
     ELSE LET p == CHOOSE q \in f : TRUE
              tmp == At(code, p).dst
              by == At(code, p).args[1]
          IN Folded(Map(Delete(code, p),
                        LAMBDA ins : [ins EXCEPT !.args =
                          [k \in DOMAIN ins.args |-> IF ins.args[k] = tmp THEN by
                                                     ELSE ins.args[k]]]))

(***************************************************************************)
(* peephole_optimizations.                                                 *)
(***************************************************************************)
\* edit_marks
EditMarks(code, ids, mk) ==
  Map(code, LAMBDA ins : IF ins.mk # <<>> /\ ins.mk[2] \in ids THEN [ins EXCEPT !.mk = mk]
                         ELSE ins)

NewMarkNo(code) ==
  1 + Max({At(code, p).mk[1] : p \in {q \in Locs(code) : At(code, q).mk # <<>>}})

IsAnExit(code, ins) ==
  \/ ins.i \in {"Return", "Fail"}
  \/ ins.i = "Goto" /\ Len(code[ins.lab]) = 1 /\ code[ins.lab][1].i \in {"Return", "Fail"}

\* The instruction after the one at p, which is not the last of its chunk.
NextIns(code, p, adjacent) ==
  LET ins == code[p[1]][p[2] + 1]
  IN IF adjacent /\ ins.i = "Goto" THEN code[ins.lab][1] ELSE ins

RedundantUnmarks(code, adjacent) ==
  {p \in Locs(code) : /\ At(code, p).i = "Unmark"
                      /\ LET next == NextIns(code, p, adjacent)
                         IN next.i = "Unmark" \/ IsAnExit(code, next)
                              \/ IsAnExit(code, code[p[1]][p[2] + 1])}

\* A mark right after a mark or an unmark, in the same chunk, marks the same place.
RepeatedMarks(code) ==
  {p \in Locs(code) : /\ At(code, p).i \in {"Mark", "Unmark"}
                      /\ code[p[1]][p[2] + 1].i = "Mark"}

LoneGotos(code) ==
  {l \in DOMAIN code \ {Entry} : Len(code[l]) = 1 /\ code[l][1].i = "Goto" /\ code[l][1].lab # l}

RECURSIVE Peephole(_, _)
Peephole(code, adjacent) ==
  LET lone == LoneGotos(code)
      unmarks == RedundantUnmarks(code, adjacent)
      marks == RepeatedMarks(code)
  IN IF lone # {} THEN LET l == CHOOSE k \in lone : TRUE
                       IN Peephole(Without(EditLabels(code, l, code[l][1].lab), l), adjacent)
     ELSE IF unmarks # {} THEN Peephole(Delete(code, CHOOSE p \in unmarks : TRUE), adjacent)
     ELSE IF marks # {}
          THEN LET p == CHOOSE q \in marks : TRUE
                   x == At(code, p)
                   y == code[p[1]][p[2] + 1]
                   same == x.i = "Unmark" /\ x.mk[1] = y.mk[1]
               IN Peephole(EditMarks(Delete(code, <<p[1], p[2] + 1>>), {x.mk[2], y.mk[2]},
                                     <<IF same THEN x.mk[1] ELSE NewMarkNo(code), x.mk[2]>>),
                           adjacent)
     ELSE code

(***************************************************************************)
(* mark_check: a mark no unmark goes back to is removed. It also gives up  *)
(* on an unmark without its mark, and on two marks for one.                *)
(***************************************************************************)
MarkIds(code, kind) == {At(code, p).mk[2] : p \in {q \in Locs(code) : At(code, q).i = kind}}

MarksBad(code) ==
  \/ MarkIds(code, "Unmark") \ MarkIds(code, "Mark") # {}
  \/ Cardinality(MarkIds(code, "Mark")) # Cardinality({p \in Locs(code) : At(code, p).i = "Mark"})

MarkCheck(code) ==
  LET wanted == MarkIds(code, "Unmark")
  IN [l \in DOMAIN code |-> SelectSeq(code[l], LAMBDA ins : ins.i = "Mark" => ins.mk[2] \in wanted)]

\* optimize: the passes again and again until at most one of them has changed
\* anything. The moves, which are not made here, count as changes too: so many
\* more rounds may follow that nothing changes any more.
RECURSIVE Passes(_, _)
Passes(code, adjacent) ==
  LET merged == Merged(code)
      folded == Folded(merged)
      peeped == Peephole(folded, adjacent)
      after == <<code, merged, folded, peeped, MarkCheck(peeped)>>
      changes == Cardinality({k \in 1..4 : after[k] # after[k + 1]})
  IN IF MarksBad(peeped) THEN [code |-> peeped, quit |-> TRUE]
     ELSE IF changes <= (IF adjacent THEN 0 ELSE 1) THEN [code |-> after[5], quit |-> FALSE]
     ELSE Passes(after[5], adjacent)

Optimize(code, adjacent) ==
  LET short == Shortened(code)
  IN IF short.quit THEN short ELSE Passes(short.code, adjacent)
=============================================================================
