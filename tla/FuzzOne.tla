------------------------------ MODULE FuzzOne ------------------------------
(***************************************************************************)
(* One entry on its way through fuzz_one: trimming, and the deterministic  *)
(* stages as far as they decide what is executed.  The walking bits find   *)
(* tokens for the dictionary, the walking byte finds the bytes that have   *)
(* no effect, and the stages after it leave those out.                     *)
(*                                                                         *)
(* A checksum is 0 when it is the entry's own.  Which deletions keep the   *)
(* path, and what a changed byte does to it, is the target's choice.  The  *)
(* values a stage tries at a place are in DetValues; here it makes one     *)
(* trial at each.  Havoc and splicing are in Mopt.                         *)
(***************************************************************************)
EXTENDS AutoExtras

CONSTANTS
  Contents,        \* test cases
  Dictionaries,    \* that the entries before have left
  Sums,            \* checksums of other paths
  TrimStartSteps, TrimEndSteps, TrimMinBytes,
  MinAutoExtra, MaxAutoExtra,
  EffBlock,        \* 2^EFF_MAP_SCALE2
  EffMinLen, EffMaxPerc

ASSUME ContentsAssumption == Contents \subseteq Seq(Bytes) \ {<<>>}
ASSUME DictionariesAssumption ==
  \A d \in Dictionaries : /\ d \in Seq([data : Seq(Bytes) \ {<<>>}, hit_cnt : Nat])
                          /\ WellKept(d) /\ Len(d) <= MaxAutoExtras
ASSUME SumsAssumption == Sums \subseteq Nat \ {0}
ASSUME StepsAssumption ==
  /\ TrimStartSteps \in Nat \ {0} /\ TrimEndSteps \in Nat \ {0} /\ TrimMinBytes \in Nat \ {0}
  /\ MinAutoExtra \in Nat \ {0, 1} /\ MaxAutoExtra \in Nat
  /\ EffBlock \in Nat \ {0} /\ EffMinLen \in Nat /\ EffMaxPerc \in 0..100

VARIABLES
  file, passed_det,                  \* on disk
  in_buf, out_buf, len,
  pc,
  remove_len, remove_pos, needs_write,
  clean,                             \* the last file run with the entry's path
  stage_cur, stage_max,
  pos,                               \* offset the stage is at
  prev_cksum, a_collect, a_len,
  sums, offered,                     \* of flipped lowest bits; what they told
  eff_map, eff_cnt, inert,           \* inert: bytes found without effect
  extra, last_len, ex_tmp,
  ran                                \* a file an extras stage executed, and where

disk  == <<file, passed_det>>
bufs  == <<in_buf, out_buf, len>>
trim  == <<remove_len, remove_pos, needs_write, clean>>
stage == <<stage_cur, stage_max>>
token == <<prev_cksum, a_collect, a_len, sums, offered, a_extras>>
eff   == <<eff_map, eff_cnt, inert>>
over  == <<extra, last_len, ex_tmp, ran>>
vars  == <<disk, bufs, pc, trim, stage, pos, token, eff, over>>

Least(a, b) == IF a < b THEN a ELSE b
Most(a, b)  == IF a > b THEN a ELSE b
NotRun == [data |-> <<>>, at |-> 0, extra |-> <<>>, over |-> FALSE]

Init ==
  /\ file \in Contents /\ passed_det = FALSE
  /\ in_buf = file /\ out_buf = file /\ len = Len(file)
  /\ pc \in {"trim_case", "flip1"}      \* or trim_done is set already
  /\ remove_len = 0 /\ remove_pos = 0 /\ needs_write = FALSE /\ clean = file
  /\ stage_cur = 0 /\ stage_max = 0 /\ pos = 0
  /\ prev_cksum = 0 /\ a_collect = <<>> /\ a_len = 0 /\ sums = <<>> /\ offered = <<>>
  /\ a_extras \in Dictionaries
  /\ eff_map = <<>> /\ eff_cnt = 0 /\ inert = {}
  /\ extra = 1 /\ last_len = 0 /\ ex_tmp = <<>> /\ ran = NotRun

-----------------------------------------------------------------------------
(* trim_case                                                               *)

pow2[k \in Nat] == IF k = 0 THEN 1 ELSE 2 * pow2[k - 1]

\* 1024 (config.h)
ASSUME EndStepsAssumption == TrimEndSteps \in {pow2[k] : k \in 0..TrimEndSteps}

next_p2(n) == CHOOSE p \in {pow2[k] : k \in 0..n} : p >= n /\ (p = 1 \/ p \div 2 < n)

StepsLeft(step, n) == step >= Most(next_p2(n) \div TrimEndSteps, TrimMinBytes)

Pass(step) ==
  IF StepsLeft(step, len)
  THEN remove_len' = step /\ remove_pos' = step /\ stage_cur' = 0 /\ pc' = "trim"
  ELSE pc' = "trimmed" /\ UNCHANGED <<remove_len, remove_pos, stage_cur>>

TrimStart ==
  /\ pc = "trim_case"
  /\ IF len < 5 THEN pc' = "flip1" /\ UNCHANGED <<remove_len, remove_pos, stage_cur>>
     ELSE Pass(Most(next_p2(len) \div TrimStartSteps, TrimMinBytes))
  /\ UNCHANGED <<disk, bufs, needs_write, clean, stage_max, pos, token, eff, over>>

trim_avail == Least(remove_len, len - remove_pos)

\* write_with_gap
Gap == SubSeq(in_buf, 1, remove_pos) \o SubSeq(in_buf, remove_pos + trim_avail + 1, len)

\* Mutant: the tail is one byte short.
TailShort == len - remove_pos - trim_avail - 1

move_tail == len - remove_pos - trim_avail

TrimAccept ==
  /\ pc = "trim" /\ remove_pos < len
  /\ len' = len - trim_avail
  /\ in_buf' = [k \in DOMAIN in_buf |->
       IF k \in (remove_pos + 1)..(remove_pos + move_tail) THEN in_buf[k + trim_avail] ELSE in_buf[k]]
  /\ clean' = Gap /\ needs_write' = TRUE
  /\ stage_cur' = stage_cur + 1
  /\ UNCHANGED <<disk, out_buf, pc, remove_len, remove_pos, stage_max, pos, token, eff, over>>

TrimRefuse ==
  /\ pc = "trim" /\ remove_pos < len
  /\ remove_pos' = remove_pos + remove_len /\ stage_cur' = stage_cur + 1
  /\ UNCHANGED <<disk, bufs, pc, remove_len, needs_write, clean, stage_max, pos, token, eff, over>>

\* Mutant: never below the smallest step.
HalvedNotBelow == Most(remove_len \div 2, TrimMinBytes)

Halved == remove_len \div 2

TrimNextPass ==
  /\ pc = "trim" /\ remove_pos >= len
  /\ Pass(Halved)
  /\ UNCHANGED <<disk, bufs, needs_write, clean, stage_max, pos, token, eff, over>>

\* The file, then out_buf.
TrimDone ==
  /\ pc = "trimmed"
  /\ file' = IF needs_write THEN SubSeq(in_buf, 1, len) ELSE file
  /\ out_buf' = SubSeq(in_buf, 1, len)
  /\ pc' = "flip1" /\ stage_cur' = 0
  /\ UNCHANGED <<passed_det, in_buf, len, trim, stage_max, pos, token, eff, over>>

\* stop_soon: what was deleted so far is not written.
TrimAbort ==
  /\ pc = "trim" /\ pc' = "over"
  /\ UNCHANGED <<disk, bufs, trim, stage, pos, token, eff, over>>

-----------------------------------------------------------------------------
(* Bitflip 1/1: a step is a byte, the flip of its lowest bit the last.     *)

Fits(s) == Len(s) >= MinAutoExtra /\ Len(s) <= MaxAutoExtra

\* a_collect is an array; what is too long is counted, not kept.
Collect(s, n, b) == IF n < MaxAutoExtra THEN SubSeq(s, 1, n) \o <<b>> ELSE s

Offer(s, n) ==
  IF n >= MinAutoExtra /\ n <= MaxAutoExtra
  THEN offered' = Append(offered, SubSeq(s, 1, n)) /\ MaybeAddAuto(SubSeq(s, 1, n))
  ELSE UNCHANGED <<offered, a_extras>>

\* Mutant: a string goes on when the path changes to another one.
StringGoesOn(c) == (c = 0) # (prev_cksum = 0)

StringEnds(c) == c # prev_cksum

\* if (cksum != queue_cur->exec_cksum) a_collect[a_len++] = ...
Go(s, n, c) ==
  /\ a_collect' = IF c # 0 THEN Collect(s, n, out_buf[pos + 1]) ELSE s
  /\ a_len' = IF c # 0 THEN n + 1 ELSE n

Flip1(c) ==
  /\ pc = "flip1" /\ pos < len
  /\ sums' = Append(sums, c) /\ pos' = pos + 1
  /\ \/ /\ pos = len - 1 /\ c = prev_cksum
        /\ LET s == Collect(a_collect, a_len, out_buf[pos + 1])
           IN Offer(s, a_len + 1) /\ Go(s, a_len + 1, c)
        /\ UNCHANGED prev_cksum
     \/ /\ StringEnds(c)
        /\ Offer(a_collect, a_len) /\ Go(a_collect, 0, c)
        /\ prev_cksum' = c
     \/ /\ ~StringEnds(c) /\ ~(pos = len - 1 /\ c = prev_cksum)
        /\ Go(a_collect, a_len, c)
        /\ UNCHANGED <<prev_cksum, offered, a_extras>>
  /\ UNCHANGED <<disk, bufs, pc, trim, stage, eff, over>>

-----------------------------------------------------------------------------
(* Bitflip 8/8: the effector map.  The stages 2/1 and 4/1 change nothing.  *)

EFF_APOS(p) == p \div EffBlock
EFF_ALEN == (len + EffBlock - 1) \div EffBlock

Flip1End ==
  /\ pc = "flip1" /\ pos >= len
  /\ eff_map' = [b \in 0..(EFF_ALEN - 1) |-> b \in {0, EFF_APOS(len - 1)}]
  /\ eff_cnt' = IF EFF_APOS(len - 1) # 0 THEN 2 ELSE 1
  /\ pc' = "flip8" /\ pos' = 0
  /\ prev_cksum' = 0 /\ a_collect' = <<>> /\ a_len' = 0 /\ sums' = <<>> /\ offered' = <<>>
  /\ UNCHANGED <<disk, bufs, trim, stage, a_extras, inert, over>>

\* Mutant: the path is compared whether the file is long enough or not.
EffectiveAnyLength(c) == c # 0

Effective(c) == len < EffMinLen \/ c # 0

Flip8(c) ==
  /\ pc = "flip8" /\ pos < len
  /\ LET found == ~eff_map[EFF_APOS(pos)] /\ Effective(c)
     IN /\ eff_map' = IF found THEN [eff_map EXCEPT ![EFF_APOS(pos)] = TRUE] ELSE eff_map
        /\ eff_cnt' = IF found THEN eff_cnt + 1 ELSE eff_cnt
  /\ inert' = IF ~eff_map[EFF_APOS(pos)] /\ c = 0 THEN inert \cup {pos} ELSE inert
  /\ pos' = pos + 1
  /\ UNCHANGED <<disk, bufs, pc, trim, stage, token, over>>

\* The stages after it, by the bytes a trial changes.
Width == [flip16 |-> 2, flip32 |-> 4, arith8 |-> 1]

ExtrasTodo == IF a_extras # <<>> THEN "ext_AO" ELSE "det_done"
After == [flip8 |-> IF len < 2 THEN "arith8" ELSE "flip16",
          flip16 |-> IF len < 4 THEN "arith8" ELSE "flip32",
          flip32 |-> "arith8",
          arith8 |-> IF UserExtras # <<>> THEN "ext_UO" ELSE ExtrasTodo,
          ext_UO |-> "ext_UI", ext_UI |-> ExtrasTodo, ext_AO |-> "det_done"]

Tokens == [ext_UO |-> UserExtras, ext_UI |-> UserExtras,
           ext_AO |-> [i \in InUse |-> a_extras[i].data]]

\* The head of the stage that follows: its counters and its buffers.
GoOn ==
  LET next == After[pc]
  IN /\ pc' = next /\ pos' = 0 /\ stage_cur' = 0
     /\ stage_max' = IF next \in DOMAIN Width THEN len - Width[next] + 1
                     ELSE IF next \in DOMAIN Tokens THEN Len(Tokens[next]) * len ELSE 0
     /\ extra' = 1 /\ last_len' = 0 /\ ran' = NotRun
     /\ ex_tmp' = IF next = "ext_UI"
                  THEN [k \in 1..(len + Len(Last(UserExtras))) |-> "junk"] ELSE <<>>
     /\ UNCHANGED <<disk, bufs, trim, token>>

\* What is denser than EFF_MAX_PERC is taken for full.
Flip8End ==
  /\ pc = "flip8" /\ pos >= len
  /\ eff_map' = IF eff_cnt # EFF_ALEN /\ (100 * eff_cnt) \div EFF_ALEN > EffMaxPerc
                THEN [b \in DOMAIN eff_map |-> TRUE] ELSE eff_map
  /\ UNCHANGED <<eff_cnt, inert>>
  /\ GoOn

Touches(n) == \E k \in pos..(pos + n - 1) : eff_map[EFF_APOS(k)]

WalkTry ==
  /\ pc \in DOMAIN Width /\ pos <= len - Width[pc] /\ Touches(Width[pc])
  /\ stage_cur' = stage_cur + 1 /\ pos' = pos + 1
  /\ UNCHANGED <<disk, bufs, pc, trim, stage_max, token, eff, over>>

WalkSkip ==
  /\ pc \in DOMAIN Width /\ pos <= len - Width[pc] /\ ~Touches(Width[pc])
  /\ stage_max' = stage_max - 1 /\ pos' = pos + 1
  /\ UNCHANGED <<disk, bufs, pc, trim, stage_cur, token, eff, over>>

WalkEnd ==
  /\ pc \in DOMAIN Width /\ pos > len - Width[pc]
  /\ UNCHANGED eff /\ GoOn

-----------------------------------------------------------------------------
(* Tokens, written over the file and into it                               *)

Data == SubSeq(in_buf, 1, len)
Put(s, p, t) == [k \in DOMAIN s |-> IF k \in (p + 1)..(p + Len(t)) THEN t[k - p] ELSE s[k]]
Overwriting == pc \in {"ext_UO", "ext_AO"} /\ pos < len /\ extra <= Len(Tokens[pc])
Token == Tokens[pc][extra]

WorthTrying(t) ==
  /\ Len(t) <= len - pos
  /\ SubSeq(out_buf, pos + 1, pos + Len(t)) # t
  /\ Touches(Len(t))

OverTry ==
  /\ Overwriting /\ WorthTrying(Token)
  /\ out_buf' = Put(out_buf, pos, Token) /\ last_len' = Len(Token)
  /\ ran' = [data |-> out_buf', at |-> pos, extra |-> Token, over |-> TRUE]
  /\ stage_cur' = stage_cur + 1 /\ extra' = extra + 1
  /\ UNCHANGED <<disk, in_buf, len, pc, trim, stage_max, pos, token, eff, ex_tmp>>

OverSkip ==
  /\ Overwriting /\ ~WorthTrying(Token)
  /\ stage_max' = stage_max - 1 /\ extra' = extra + 1
  /\ UNCHANGED <<disk, bufs, pc, trim, stage_cur, pos, token, eff, last_len, ex_tmp, ran>>

\* Only what the last token covered is restored: it was the longest.
OverRestore ==
  /\ pc \in {"ext_UO", "ext_AO"} /\ pos < len /\ extra > Len(Tokens[pc])
  /\ out_buf' = Put(out_buf, pos, SubSeq(in_buf, pos + 1, pos + last_len))
  /\ pos' = pos + 1 /\ extra' = 1 /\ last_len' = 0
  /\ UNCHANGED <<disk, in_buf, len, pc, trim, stage, token, eff, ex_tmp, ran>>

InsertTry ==
  /\ pc = "ext_UI" /\ pos <= len /\ extra <= Len(UserExtras)
  /\ ex_tmp' = Put(Put(ex_tmp, pos, Token), pos + Len(Token), SubSeq(out_buf, pos + 1, len))
  /\ ran' = [data |-> SubSeq(ex_tmp', 1, len + Len(Token)), at |-> pos,
             extra |-> Token, over |-> FALSE]
  /\ stage_cur' = stage_cur + 1 /\ extra' = extra + 1
  /\ UNCHANGED <<disk, bufs, pc, trim, stage_max, pos, token, eff, last_len>>

\* Mutant: the head grows by the byte after the one it should.
HeadByteLate == pos + 1

HeadByte == pos

InsertNext ==
  /\ pc = "ext_UI" /\ pos <= len /\ extra > Len(UserExtras)
  /\ ex_tmp' = IF HeadByte < len THEN Put(ex_tmp, HeadByte, <<out_buf[HeadByte + 1]>>) ELSE ex_tmp
  /\ pos' = pos + 1 /\ extra' = 1
  /\ UNCHANGED <<disk, bufs, pc, trim, stage, token, eff, last_len, ran>>

ExtrasEnd ==
  /\ \/ pc \in {"ext_UO", "ext_AO"} /\ pos >= len
     \/ pc = "ext_UI" /\ pos > len
  /\ UNCHANGED eff /\ GoOn

\* mark_as_det_done, and on to havoc_stage.
DetDone ==
  /\ pc = "det_done"
  /\ passed_det' = TRUE /\ pc' = "over"
  /\ UNCHANGED <<file, bufs, trim, stage, pos, token, eff, over>>

\* common_fuzz_stuff returns 1 in any of the stages.
Abandon ==
  /\ pc \in {"flip1", "flip8"} \cup DOMAIN Width \cup DOMAIN Tokens
  /\ pc' = "over"
  /\ UNCHANGED <<disk, bufs, trim, stage, pos, token, eff, over>>

Finished == pc = "over" /\ UNCHANGED vars

TrimCase == TrimStart \/ TrimAccept \/ TrimRefuse \/ TrimNextPass \/ TrimDone \/ TrimAbort
Flips  == (\E c \in {0} \cup Sums : Flip1(c) \/ Flip8(c)) \/ Flip1End \/ Flip8End
Walks  == WalkTry \/ WalkSkip \/ WalkEnd
Extras == OverTry \/ OverSkip \/ OverRestore \/ InsertTry \/ InsertNext \/ ExtrasEnd
Next == TrimCase \/ Flips \/ Walks \/ Extras \/ DetDone \/ Abandon \/ Finished
Spec == Init /\ [][Next]_vars
FairSpec == Spec /\ WF_vars(Next)

-----------------------------------------------------------------------------
(* Properties                                                              *)

\* What is left of the input while it is trimmed is exactly what was executed
\* and found to take the same path, and this is what the file holds and the
\* stages work on; a trim that is cut short leaves the file alone.  No pass
\* makes more than TRIM_END_STEPS executions, although the length it divides
\* shrinks while it runs.
TrimSound ==
  /\ Data = clean
  /\ pc \notin {"trim_case", "trim", "trimmed", "over"} => file = clean
  /\ pc \notin {"trim_case", "trim", "trimmed", "over", "ext_UO", "ext_AO"} => out_buf = clean
  /\ pc = "trim" => stage_cur <= TrimEndSteps

\* Strings of bytes whose flips all lead to one other path, as long as they
\* may be, and with neighbours that do not belong to them.
RunsOf(s) ==
  {SubSeq(out_buf, r[1], r[2]) : r \in {r \in (DOMAIN s) \X (DOMAIN s) :
     /\ r[1] <= r[2] /\ s[r[1]] # 0
     /\ \A k \in r[1]..r[2] : s[k] = s[r[1]]
     /\ r[1] > 1 => s[r[1] - 1] # s[r[1]]
     /\ r[2] < Len(s) => s[r[2] + 1] # s[r[2]]}}

\* At the end of bitflip 1/1 the dictionary was offered the maximal strings of
\* a length between the limits, at the end of the file too (7241), and no
\* others; what is longer never leaves a_collect (7246, 7271).
TokensAreRuns ==
  /\ Len(a_collect) <= MaxAutoExtra
  /\ pc = "flip1" /\ pos = len => ToSet(offered) = {t \in RunsOf(sums) : Fits(t)}

\* The list is well kept, and full it gives up no token that more than half of
\* it is not at least as good as: what the stages use stays until others are
\* used more (USE_AUTO_EXTRAS is below half of MAX_AUTO_EXTRAS).
DictionaryKept ==
  [][/\ WellKept(a_extras') /\ Len(a_extras') <= MaxAutoExtras
     /\ \A i \in DOMAIN a_extras :
          ~(\E j \in DOMAIN a_extras' : a_extras'[j].data = a_extras[i].data)
            => Cardinality({j \in DOMAIN a_extras : a_extras[j].hit_cnt >= a_extras[i].hit_cnt})
                 > MaxAutoExtras \div 2]_vars

\* A byte that later stages leave out was flipped as a whole without changing
\* the path; eff_cnt is the number of blocks that are not left out, or were not
\* before the map was taken for full; and each place that is left out is taken
\* off stage_max, once, so that it comes down to the trials that were made.
EffectorMapSound ==
  pc \in DOMAIN Width \cup DOMAIN Tokens =>
    /\ \A k \in 0..(len - 1) :
         ~eff_map[EFF_APOS(k)] => k \in inert /\ k # 0 /\ k # len - 1 /\ len >= EffMinLen
    /\ LET flagged == {b \in DOMAIN eff_map : eff_map[b]}
       IN eff_cnt = Cardinality(flagged) \/ flagged = DOMAIN eff_map
    /\ \/ pc \in DOMAIN Width /\ pos > len - Width[pc]
       \/ pc \in {"ext_UO", "ext_AO"} /\ pos >= len
       => stage_cur = stage_max

\* Every execution of the extras stages is the input with one token over it or
\* in it: nothing is left of the tokens before, although the buffer is not
\* restored between them (8073), because they come sorted by size.
OneTokenAtATime ==
  ran # NotRun =>
    ran.data = IF ran.over THEN Put(Data, ran.at, ran.extra)
               ELSE SubSeq(Data, 1, ran.at) \o ran.extra \o SubSeq(Data, ran.at + 1, len)

\* fuzz_one gets through the entry: every pass of the trim and every stage ends.
EntryEnds == <>(pc = "over")
=============================================================================
