----------------------------- MODULE AutoExtras -----------------------------
(***************************************************************************)
(* The dictionary afl-fuzz makes for itself: tokens that maybe_add_auto is *)
(* offered, how often each was offered again, and the order the list is    *)
(* kept in.  qsort is not stable, so that ties come out in any order.      *)
(* Bytes that differ in case only are one byte here.                       *)
(***************************************************************************)
EXTENDS Integers, Sequences, FiniteSets, SequencesExt

CONSTANTS
  Bytes,           \* values of a byte
  UserExtras,      \* extras: the tokens of -x, sorted by load_extras
  Builtin,         \* tokens that are interesting integers
  UseAutoExtras,   \* USE_AUTO_EXTRAS
  MaxAutoExtras    \* MAX_AUTO_EXTRAS

ASSUME UserExtrasAssumption ==
  /\ UserExtras \in Seq(Seq(Bytes) \ {<<>>})
  /\ \A i, j \in DOMAIN UserExtras : i < j => Len(UserExtras[i]) <= Len(UserExtras[j])
ASSUME AutoExtrasAssumption ==
  UseAutoExtras \in Nat \ {0} /\ MaxAutoExtras \in Nat /\ MaxAutoExtras >= 2 * UseAutoExtras

VARIABLE a_extras   \* tokens with their hit_cnt

Used(n) == IF n < UseAutoExtras THEN n ELSE UseAutoExtras
InUse == 1..Used(Len(a_extras))   \* what the stages work with

\* By use, then the head by size.
Sorted(s) ==
  /\ \A i, j \in 1..Used(Len(s)) : i < j => Len(s[i].data) <= Len(s[j].data)
  /\ \A i \in DOMAIN s, j \in (Used(Len(s)) + 1)..Len(s) : i < j => s[i].hit_cnt >= s[j].hit_cnt

Shuffles(s) == {[i \in DOMAIN s |-> s[p[i]]] : p \in Bijection(DOMAIN s, DOMAIN s)}
Sorts(s) == {t \in Shuffles(s) : Sorted(t)}

\* Mutant: any entry may be evicted.
EvictableAll == 1..MaxAutoExtras

\* MAX_AUTO_EXTRAS / 2 + UR((MAX_AUTO_EXTRAS + 1) / 2)
Evictable == {MaxAutoExtras \div 2 + k : k \in 1..((MaxAutoExtras + 1) \div 2)}

Rejected(tok) ==
  \/ \A i \in DOMAIN tok : tok[i] = tok[1]
  \/ tok \in Builtin
  \/ tok \in ToSet(UserExtras)

Entry(tok) == [data |-> tok, hit_cnt |-> 0]

Known(tok) == {i \in DOMAIN a_extras : a_extras[i].data = tok}

\* maybe_add_auto
MaybeAddAuto(tok) ==
  \/ Rejected(tok) /\ UNCHANGED a_extras
  \/ /\ ~Rejected(tok)
     /\ \E i \in Known(tok) : a_extras' \in Sorts([a_extras EXCEPT ![i].hit_cnt = @ + 1])
  \/ /\ ~Rejected(tok) /\ Known(tok) = {} /\ Len(a_extras) < MaxAutoExtras
     /\ a_extras' \in Sorts(Append(a_extras, Entry(tok)))
  \/ /\ ~Rejected(tok) /\ Known(tok) = {} /\ Len(a_extras) >= MaxAutoExtras
     /\ \E i \in Evictable : a_extras' \in Sorts([a_extras EXCEPT ![i] = Entry(tok)])

\* What callers rely on: the head sorted by size and used the most, the tail
\* sorted by use, no token twice.
WellKept(s) ==
  LET head == 1..Used(Len(s))
  IN /\ \A i, j \in head : i < j => Len(s[i].data) <= Len(s[j].data)
     /\ \A i \in DOMAIN s, j \in (DOMAIN s) \ head : i < j => s[i].hit_cnt >= s[j].hit_cnt
     /\ \A i, j \in DOMAIN s : s[i].data = s[j].data => i = j
=============================================================================
