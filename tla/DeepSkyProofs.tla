---------------------------- MODULE DeepSkyProofs ----------------------------
(***************************************************************************)
(* For any filters, wave lengths, sweepers, stamps and crashes: types, and *)
(* the four properties of a deep-sky run.                                  *)
(*                                                                         *)
(* None of them is inductive.  A master taken from disk is whole because a *)
(* run can only be left, by a pause or a crash, when every channel at work *)
(* is settled or recorded as harmed; a sweep spares a new run because what *)
(* it still has to remove got its stamp before the run did.                *)
(***************************************************************************)
EXTENDS DeepSkyRun, FiniteSetTheorems, TLAPS

AtWork == {"wait", "stack", "gutted", "finish"}

\* The row, the counter and the memory of the run agree.
Rows ==
  /\ inFlight = IF pc = "off" THEN 0 ELSE 1
  /\ pc # "off" <=> job = "running"
  /\ lane => job \in {"queued", "paused"}
  /\ cp = None \/ cp \in 1 .. stamps
  /\ IF pc = "off" THEN run = None ELSE run \in 1 .. stamps
  /\ pc = "off" /\ job # "succeeded" => final = {} /\ \A f \in Filter : ch[f] = "new"

\* Where a master comes from.
Masters ==
  /\ \A f \in Filter : ch[f] \in AtWork => pc = "stack" /\ f \in Wave
  /\ \A f \in Filter : mast[f] = "part" => f \in harm \cup soft \/ ch[f] = "finish"
  /\ \A f \in Filter : ch[f] = "finish" => mast[f] = "part"
  /\ \A f \in Filter : ch[f] \in {"ok", "reused"} => mast[f] # "none"
  /\ final \subseteq Stacked

\* What the end of a run knows of its image.
HasImage == Stacked # {} /\ (Cardinality(Stacked) > 1 => final = Stacked)
Ends ==
  /\ pc \in {"wave", "stack", "combine"} => final = {}
  /\ pc = "verdict" => final = {} \/ final = Stacked
  /\ pc = "return" => out # "none"
  /\ pc = "return" /\ out = "ok" /\ ~ctx => HasImage
  /\ job = "succeeded" => HasImage

\* What a pause keeps is on disk, and the next run is a resumed one.
Keeps ==
  /\ kept # {} => cp # None
  /\ pc # "off" /\ cp # None => resumed
  /\ \A f \in kept : mast[f] = "done" /\ ch[f] \notin AtWork

\* What a sweep is about to remove is older than any new run.
Sweeps ==
  /\ there \subseteq 1 .. stamps /\ cli \subseteq 1 .. stamps /\ old \subseteq 1 .. stamps
  /\ \A s \in Sweeper : names[s] \subseteq old
  /\ \A s \in Sweeper : spc[s] = "remove" /\ pc # "off" /\ ~resumed => run \notin names[s]

\* What is reused, and what a run that was started anew has stacked.
Anew ==
  /\ \A f \in Filter : ch[f] = "reused" => resumed
  /\ ~resumed => \A f \in Filter : ch[f] # "gutted" /\ (ch[f] \in {"finish", "ok"} => f \notin harm)

Inv == TypeOK /\ Rows /\ Masters /\ Ends /\ Keeps /\ Sweeps /\ Anew

USE StampAssumption, OrderAssumption, CrashAssumption

LEMMA OrderLength == Len(Order) \in Nat /\ Len(Order) >= 1
  OBVIOUS

\* The wave depends on two variables that change together with the step only.
LEMMA SameWave == UNCHANGED <<first, parallel>> => Wave' = Wave
  BY DEF Wave

LEMMA OneIsSome == ASSUME NEW S, Cardinality(S) = 1 PROVE S # {}
<1>1. Cardinality({}) # 1
  BY FS_EmptySet
<1> QED
  BY <1>1

LEMMA InitInv == Init => Inv
<1> SUFFICES ASSUME Init PROVE Inv
  OBVIOUS
<1>1. TypeOK
  <2>1. /\ stamps \in 0 .. MaxStamp /\ there \subseteq Stamp /\ old \subseteq Stamp /\ cli \subseteq Stamp
        /\ inFlight \in {0, 1}
        /\ spc \in [Sweeper -> {"idle", "check", "list", "loop", "remove"}] /\ names \in [Sweeper -> SUBSET Stamp]
    BY DEF Init, WorkInit
  <2>2. /\ parallel \in 1 .. Len(Order) /\ first \in 1 .. Len(Order) /\ lane \in BOOLEAN
        /\ cp \in Stamp \cup {None} /\ run \in Stamp \cup {None} /\ crashes \in 0 .. MaxCrashes
    BY OrderLength DEF Init
  <2>3. /\ ch \in [Filter -> ChState] /\ mast \in [Filter -> {"none", "part", "done"}]
        /\ final \subseteq Filter /\ harm \subseteq Filter /\ soft \subseteq Filter /\ kept \subseteq Filter
    BY DEF Init, ChState
  <2> QED
    BY <2>1, <2>2, <2>3 DEF Init, TypeOK
<1>2. Rows /\ Ends /\ Keeps /\ Sweeps /\ Anew
  BY DEF Init, WorkInit, None, Rows, Ends, Keeps, Sweeps, Anew
<1>3. Masters
  BY DEF Init, Masters, AtWork
<1> QED
  BY <1>1, <1>2, <1>3 DEF Inv

LEMMA NextInv == Inv /\ [Next]_vars => Inv'
<1> SUFFICES ASSUME Inv, [Next]_vars PROVE Inv'
  OBVIOUS
<1> USE DEF Inv
<1>1. CASE UNCHANGED vars
  <2>1. TypeOK'
    BY <1>1, OrderLength
      DEF vars, runVars, jobVars, workVars, sweepVars, TypeOK, Rows, Masters, Stamp, ChState,
          AtWork
  <2>2. Rows'
    BY <1>1
      DEF vars, runVars, jobVars, workVars, sweepVars, TypeOK, Rows, Masters, AtWork, None,
          Stamp
  <2>3. Masters'
    BY <1>1, SameWave
      DEF vars, runVars, jobVars, workVars, sweepVars, TypeOK, Rows, Masters, AtWork, Stacked
  <2>4. Ends'
    BY <1>1
      DEF vars, runVars, jobVars, workVars, sweepVars, TypeOK, Rows, Masters, Ends, HasImage,
          Stacked, AtWork
  <2>5. Keeps'
    BY <1>1
      DEF vars, runVars, jobVars, workVars, sweepVars, TypeOK, Rows, Masters, Keeps, AtWork,
          None
  <2>6. Sweeps'
    BY <1>1 DEF vars, runVars, jobVars, workVars, sweepVars, TypeOK, Rows, Sweeps, None, Stamp
  <2>7. Anew'
    BY <1>1
      DEF vars, runVars, jobVars, workVars, sweepVars, TypeOK, Rows, Masters, Anew, Sweeps,
          AtWork, None
  <2> QED
    BY <2>1, <2>2, <2>3, <2>4, <2>5, <2>6, <2>7
<1>2. CASE Start
  <2>1. TypeOK'
    <3>1. run' \in Stamp /\ stamps' \in 0 .. MaxStamp /\ inFlight' \in {0, 1}
      <4>1. CASE cp # None
        BY <1>2, <4>1 DEF Start, TypeOK, Rows, Stamp, None
      <4>2. CASE cp = None
        BY <1>2, <4>2 DEF Start, NewStamp, TypeOK, Rows, Stamp, None
      <4> QED
        BY <4>1, <4>2
    <3>2. mast' \in [Filter -> {"none", "part", "done"}] /\ harm' \subseteq Filter /\ soft' \subseteq Filter
      BY <1>2 DEF Start, TypeOK
    <3>3. resumed' \in BOOLEAN /\ lane' \in BOOLEAN
      BY <1>2, Zenon DEF Start
    <3>4. UNCHANGED <<first, ch, final, gate, ctx, out, parallel, cp, kept, crashes, there, old, cli, spc, names>>
      BY <1>2 DEF Start, sweepVars
    <3>5. pc' = "wave" /\ job' = "running"
      BY <1>2 DEF Start
    <3> QED
      BY <3>1, <3>2, <3>3, <3>4, <3>5 DEF TypeOK
  <2>2. Rows'
    <3>1. CASE cp # None
      BY <1>2, <3>1
        DEF Start, NewStamp, runVars, jobVars, workVars, sweepVars, TypeOK, Rows, None, Stamp
    <3>2. CASE cp = None
      BY <1>2, <3>2
        DEF Start, NewStamp, runVars, jobVars, workVars, sweepVars, TypeOK, Rows, None, Stamp
    <3> QED
      BY <3>1, <3>2
  <2>3. Masters'
    BY <1>2, SameWave
      DEF Start, NewStamp, runVars, jobVars, workVars, sweepVars, TypeOK, Rows, Masters, AtWork,
          Stacked
  <2>4. Ends'
    BY <1>2
      DEF Start, NewStamp, runVars, jobVars, workVars, sweepVars, TypeOK, Rows, Masters, Ends,
          HasImage, Stacked, AtWork
  <2>5. Keeps'
    BY <1>2
      DEF Start, NewStamp, runVars, jobVars, workVars, sweepVars, TypeOK, Rows, Masters, Keeps,
          AtWork, None
  <2>6. Sweeps'
    <3>1. CASE cp # None
      BY <1>2, <3>1
        DEF Start, NewStamp, runVars, jobVars, workVars, sweepVars, TypeOK, Rows, Sweeps, None,
            Stamp
    <3>2. CASE cp = None
      BY <1>2, <3>2
        DEF Start, NewStamp, runVars, jobVars, workVars, sweepVars, TypeOK, Rows, Sweeps, None,
            Stamp
    <3> QED
      BY <3>1, <3>2
  <2>7. Anew'
    BY <1>2
      DEF Start, NewStamp, runVars, jobVars, workVars, sweepVars, TypeOK, Rows, Masters, Anew,
          Sweeps, AtWork, None
  <2> QED
    BY <2>1, <2>2, <2>3, <2>4, <2>5, <2>6, <2>7
<1>3. CASE OpenWave
  <2>1. TypeOK'
    BY <1>3, OrderLength
      DEF OpenWave, Reuse, OnDisk, runVars, jobVars, workVars, sweepVars, TypeOK, Rows, Masters,
          Stamp, ChState, AtWork
  <2>2. Rows'
    BY <1>3
      DEF OpenWave, Reuse, OnDisk, runVars, jobVars, workVars, sweepVars, TypeOK, Rows, Masters,
          AtWork, None, Stamp
  <2>3. Masters'
    <3>1. /\ pc = "wave" /\ pc' = "stack" /\ Wave' = Wave /\ UNCHANGED <<mast, harm, soft, final>>
          /\ \A f \in Filter : ch'[f] = IF f \in Wave THEN IF Reuse(f) THEN "reused" ELSE "wait" ELSE ch[f]
      BY <1>3, SameWave DEF OpenWave, jobVars
    <3>2. \A f \in Filter : ch[f] \notin AtWork
      BY <3>1 DEF Masters
    <3>3. \A f \in Filter : ch'[f] # "finish" /\ (ch'[f] \in AtWork => f \in Wave)
      BY <3>1, <3>2 DEF AtWork
    <3>4. \A f \in Filter : ch'[f] \in {"ok", "reused"} => mast[f] # "none"
      BY <3>1 DEF Reuse, OnDisk, Masters
    <3>5. final = {}
      BY <3>1 DEF Ends
    <3> QED
      BY <3>1, <3>2, <3>3, <3>4, <3>5 DEF Masters, AtWork, Stacked
  <2>4. Ends'
    BY <1>3
      DEF OpenWave, Reuse, OnDisk, runVars, jobVars, workVars, sweepVars, TypeOK, Rows, Masters,
          Ends, HasImage, Stacked, AtWork
  <2>5. Keeps'
    BY <1>3
      DEF OpenWave, Reuse, OnDisk, runVars, jobVars, workVars, sweepVars, TypeOK, Rows, Masters,
          Keeps, AtWork, None
  <2>6. Sweeps'
    BY <1>3
      DEF OpenWave, Reuse, OnDisk, runVars, jobVars, workVars, sweepVars, TypeOK, Rows, Sweeps,
          None, Stamp
  <2>7. Anew'
    BY <1>3
      DEF OpenWave, Reuse, OnDisk, runVars, jobVars, workVars, sweepVars, TypeOK, Rows, Masters,
          Anew, Sweeps, AtWork, None
  <2> QED
    BY <2>1, <2>2, <2>3, <2>4, <2>5, <2>6, <2>7
<1>4. CASE CloseWave
  <2>1. TypeOK'
    BY <1>4, OrderLength
      DEF CloseWave, EndOfWave, Settled, runVars, jobVars, workVars, sweepVars, TypeOK, Rows,
          Masters, Stamp, ChState, AtWork
  <2>2. Rows'
    BY <1>4
      DEF CloseWave, EndOfWave, Settled, runVars, jobVars, workVars, sweepVars, TypeOK, Rows,
          Masters, AtWork, None, Stamp
  <2>3. Masters'
    BY <1>4, SameWave
      DEF CloseWave, EndOfWave, Settled, runVars, jobVars, workVars, sweepVars, TypeOK, Rows,
          Masters, AtWork, Stacked
  <2>4. Ends'
    BY <1>4
      DEF CloseWave, EndOfWave, Settled, runVars, jobVars, workVars, sweepVars, TypeOK, Rows,
          Masters, Ends, HasImage, Stacked, AtWork
  <2>5. Keeps'
    BY <1>4
      DEF CloseWave, EndOfWave, Settled, runVars, jobVars, workVars, sweepVars, TypeOK, Rows,
          Masters, Keeps, AtWork, None
  <2>6. Sweeps'
    BY <1>4
      DEF CloseWave, EndOfWave, Settled, runVars, jobVars, workVars, sweepVars, TypeOK, Rows,
          Sweeps, None, Stamp
  <2>7. Anew'
    BY <1>4
      DEF CloseWave, EndOfWave, Settled, runVars, jobVars, workVars, sweepVars, TypeOK, Rows,
          Masters, Anew, Sweeps, AtWork, None
  <2> QED
    BY <2>1, <2>2, <2>3, <2>4, <2>5, <2>6, <2>7
<1>5. CASE Combine
  <2>1. TypeOK'
    BY <1>5, OrderLength
      DEF Combine, Stacked, runVars, jobVars, workVars, sweepVars, TypeOK, Rows, Masters, Stamp,
          ChState, AtWork
  <2>2. Rows'
    BY <1>5
      DEF Combine, Stacked, runVars, jobVars, workVars, sweepVars, TypeOK, Rows, Masters,
          AtWork, None, Stamp
  <2>3. Masters'
    BY <1>5, SameWave
      DEF Combine, Stacked, runVars, jobVars, workVars, sweepVars, TypeOK, Rows, Masters,
          AtWork, Stacked
  <2>4. Ends'
    BY <1>5
      DEF Combine, Stacked, runVars, jobVars, workVars, sweepVars, TypeOK, Rows, Masters, Ends,
          HasImage, Stacked, AtWork
  <2>5. Keeps'
    BY <1>5
      DEF Combine, Stacked, runVars, jobVars, workVars, sweepVars, TypeOK, Rows, Masters, Keeps,
          AtWork, None
  <2>6. Sweeps'
    BY <1>5
      DEF Combine, Stacked, runVars, jobVars, workVars, sweepVars, TypeOK, Rows, Sweeps, None,
          Stamp
  <2>7. Anew'
    BY <1>5
      DEF Combine, Stacked, runVars, jobVars, workVars, sweepVars, TypeOK, Rows, Masters, Anew,
          Sweeps, AtWork, None
  <2> QED
    BY <2>1, <2>2, <2>3, <2>4, <2>5, <2>6, <2>7
<1>6. CASE Verdict
  <2>1. TypeOK'
    BY <1>6, OrderLength
      DEF Verdict, CombineFailed, runVars, jobVars, workVars, sweepVars, TypeOK, Rows, Masters,
          Stamp, ChState, AtWork
  <2>2. Rows'
    BY <1>6
      DEF Verdict, CombineFailed, runVars, jobVars, workVars, sweepVars, TypeOK, Rows, Masters,
          AtWork, None, Stamp
  <2>3. Masters'
    BY <1>6, SameWave
      DEF Verdict, CombineFailed, runVars, jobVars, workVars, sweepVars, TypeOK, Rows, Masters,
          AtWork, Stacked
  <2>4. Ends'
    <3>1. UNCHANGED <<ch, final, ctx, job>> /\ pc = "verdict" /\ pc' = "return"
      BY <1>6 DEF Verdict, jobVars
    <3>2. Stacked' = Stacked
      BY <3>1 DEF Stacked
    <3>3. out' = IF CombineFailed THEN "error" ELSE "ok"
      BY <1>6 DEF Verdict
    <3>4. out' = "ok" /\ ~ctx => final # {} \/ Cardinality(Stacked) = 1
      BY <3>3 DEF CombineFailed
    <3>5. Cardinality(Stacked) = 1 => Stacked # {}
      BY OneIsSome
    <3>6. job # "succeeded"
      BY <3>1 DEF Rows
    <3>7. final = {} \/ final = Stacked
      BY <3>1 DEF Ends
    <3> QED
      BY <3>1, <3>2, <3>3, <3>4, <3>5, <3>6, <3>7 DEF Ends, HasImage
  <2>5. Keeps'
    BY <1>6
      DEF Verdict, CombineFailed, runVars, jobVars, workVars, sweepVars, TypeOK, Rows, Masters,
          Keeps, AtWork, None
  <2>6. Sweeps'
    BY <1>6
      DEF Verdict, CombineFailed, runVars, jobVars, workVars, sweepVars, TypeOK, Rows, Sweeps,
          None, Stamp
  <2>7. Anew'
    BY <1>6
      DEF Verdict, CombineFailed, runVars, jobVars, workVars, sweepVars, TypeOK, Rows, Masters,
          Anew, Sweeps, AtWork, None
  <2> QED
    BY <2>1, <2>2, <2>3, <2>4, <2>5, <2>6, <2>7
<1>7. CASE Return
  <2>1. TypeOK'
    <3>1. /\ spc' \in [Sweeper -> {"idle", "check", "list", "loop", "remove"}]
          /\ inFlight' \in {0, 1}
      BY <1>7 DEF Return, SweepBegins, TypeOK, Rows
    <3>2. /\ pc' = "off" /\ run' = None /\ resumed' \in BOOLEAN /\ first' = 1
          /\ gate' = FALSE /\ ctx' = FALSE /\ out' = "none"
          /\ ch' \in [Filter -> ChState] /\ final' \subseteq Filter
      BY <1>7 DEF Return, Forget, TypeOK, ChState
    <3>3. job' \in {"queued", "running", "paused", "succeeded", "failed", "cancelled"}
      BY <1>7 DEF Return, Status
    <3>4. cp' \in Stamp \cup {None} /\ kept' \subseteq Filter
      BY <1>7 DEF Return, TypeOK
    <3>5. UNCHANGED <<parallel, mast, harm, soft, lane, crashes, stamps, there, old, cli, names>>
      BY <1>7 DEF Return
    <3>6. gate' \in BOOLEAN /\ ctx' \in BOOLEAN /\ resumed' \in BOOLEAN
      BY <3>2
    <3>7. first' \in 1 .. Len(Order)
      BY <3>2, OrderLength
    <3> QED
      BY <3>1, <3>2, <3>3, <3>4, <3>5, <3>6, <3>7 DEF TypeOK
  <2>2. Rows'
    BY <1>7
      DEF Return, Forget, Status, SweepBegins, runVars, jobVars, workVars, sweepVars, TypeOK,
          Rows, Masters, AtWork, None, Stamp
  <2>3. Masters'
    BY <1>7, SameWave
      DEF Return, Forget, Status, SweepBegins, runVars, jobVars, workVars, sweepVars, TypeOK,
          Rows, Masters, AtWork, Stacked
  <2>4. Ends'
    BY <1>7
      DEF Return, Forget, Status, SweepBegins, runVars, jobVars, workVars, sweepVars, TypeOK,
          Rows, Masters, Ends, HasImage, Stacked, AtWork
  <2>5. Keeps'
    BY <1>7
      DEF Return, Forget, Status, SweepBegins, runVars, jobVars, workVars, sweepVars, TypeOK,
          Rows, Masters, Keeps, AtWork, None
  <2>6. Sweeps'
    BY <1>7
      DEF Return, Forget, Status, SweepBegins, runVars, jobVars, workVars, sweepVars, TypeOK,
          Rows, Sweeps, None, Stamp
  <2>7. Anew'
    BY <1>7
      DEF Return, Forget, Status, SweepBegins, runVars, jobVars, workVars, sweepVars, TypeOK,
          Rows, Masters, Anew, Sweeps, AtWork, None
  <2> QED
    BY <2>1, <2>2, <2>3, <2>4, <2>5, <2>6, <2>7
<1>8. CASE Cancel
  <2>1. TypeOK'
    BY <1>8, OrderLength
      DEF Cancel, runVars, jobVars, workVars, sweepVars, TypeOK, Rows, Masters, Stamp, ChState,
          AtWork
  <2>2. Rows'
    BY <1>8
      DEF Cancel, runVars, jobVars, workVars, sweepVars, TypeOK, Rows, Masters, AtWork, None,
          Stamp
  <2>3. Masters'
    BY <1>8, SameWave
      DEF Cancel, runVars, jobVars, workVars, sweepVars, TypeOK, Rows, Masters, AtWork, Stacked
  <2>4. Ends'
    BY <1>8
      DEF Cancel, runVars, jobVars, workVars, sweepVars, TypeOK, Rows, Masters, Ends, HasImage,
          Stacked, AtWork
  <2>5. Keeps'
    BY <1>8
      DEF Cancel, runVars, jobVars, workVars, sweepVars, TypeOK, Rows, Masters, Keeps, AtWork,
          None
  <2>6. Sweeps'
    BY <1>8 DEF Cancel, runVars, jobVars, workVars, sweepVars, TypeOK, Rows, Sweeps, None, Stamp
  <2>7. Anew'
    BY <1>8
      DEF Cancel, runVars, jobVars, workVars, sweepVars, TypeOK, Rows, Masters, Anew, Sweeps,
          AtWork, None
  <2> QED
    BY <2>1, <2>2, <2>3, <2>4, <2>5, <2>6, <2>7
<1>9. CASE Pause
  <2>1. TypeOK'
    BY <1>9, OrderLength
      DEF Pause, runVars, jobVars, workVars, sweepVars, TypeOK, Rows, Masters, Stamp, ChState,
          AtWork
  <2>2. Rows'
    BY <1>9
      DEF Pause, runVars, jobVars, workVars, sweepVars, TypeOK, Rows, Masters, AtWork, None,
          Stamp
  <2>3. Masters'
    BY <1>9, SameWave
      DEF Pause, runVars, jobVars, workVars, sweepVars, TypeOK, Rows, Masters, AtWork, Stacked
  <2>4. Ends'
    BY <1>9
      DEF Pause, runVars, jobVars, workVars, sweepVars, TypeOK, Rows, Masters, Ends, HasImage,
          Stacked, AtWork
  <2>5. Keeps'
    BY <1>9
      DEF Pause, runVars, jobVars, workVars, sweepVars, TypeOK, Rows, Masters, Keeps, AtWork,
          None
  <2>6. Sweeps'
    BY <1>9 DEF Pause, runVars, jobVars, workVars, sweepVars, TypeOK, Rows, Sweeps, None, Stamp
  <2>7. Anew'
    BY <1>9
      DEF Pause, runVars, jobVars, workVars, sweepVars, TypeOK, Rows, Masters, Anew, Sweeps,
          AtWork, None
  <2> QED
    BY <2>1, <2>2, <2>3, <2>4, <2>5, <2>6, <2>7
<1>10. CASE Continue
  <2>1. TypeOK'
    BY <1>10, OrderLength
      DEF Continue, runVars, jobVars, workVars, sweepVars, TypeOK, Rows, Masters, Stamp,
          ChState, AtWork
  <2>2. Rows'
    BY <1>10
      DEF Continue, runVars, jobVars, workVars, sweepVars, TypeOK, Rows, Masters, AtWork, None,
          Stamp
  <2>3. Masters'
    BY <1>10, SameWave
      DEF Continue, runVars, jobVars, workVars, sweepVars, TypeOK, Rows, Masters, AtWork,
          Stacked
  <2>4. Ends'
    BY <1>10
      DEF Continue, runVars, jobVars, workVars, sweepVars, TypeOK, Rows, Masters, Ends,
          HasImage, Stacked, AtWork
  <2>5. Keeps'
    BY <1>10
      DEF Continue, runVars, jobVars, workVars, sweepVars, TypeOK, Rows, Masters, Keeps, AtWork,
          None
  <2>6. Sweeps'
    BY <1>10
      DEF Continue, runVars, jobVars, workVars, sweepVars, TypeOK, Rows, Sweeps, None, Stamp
  <2>7. Anew'
    BY <1>10
      DEF Continue, runVars, jobVars, workVars, sweepVars, TypeOK, Rows, Masters, Anew, Sweeps,
          AtWork, None
  <2> QED
    BY <2>1, <2>2, <2>3, <2>4, <2>5, <2>6, <2>7
<1>11. CASE Crash
  <2>1. TypeOK'
    <3>1. spc' \in [Sweeper -> {"idle", "check", "list", "loop", "remove"}]
      BY <1>11 DEF Crash
    <3>2. names' \in [Sweeper -> SUBSET Stamp] /\ inFlight' \in {0, 1} /\ crashes' \in 0 .. MaxCrashes
      BY <1>11 DEF Crash, TypeOK
    <3>3. /\ pc' = "off" /\ run' = None /\ resumed' \in BOOLEAN /\ first' = 1
          /\ gate' = FALSE /\ ctx' = FALSE /\ out' = "none"
          /\ ch' \in [Filter -> ChState] /\ final' \subseteq Filter
      BY <1>11 DEF Crash, Forget, TypeOK, ChState
    <3>4. /\ job' \in {"queued", "running", "paused", "succeeded", "failed", "cancelled"}
          /\ cp' \in Stamp \cup {None} /\ lane' \in BOOLEAN
      BY <1>11 DEF Crash, Requeued, TypeOK
    <3>5. mast' \in [Filter -> {"none", "part", "done"}] /\ harm' \subseteq Filter /\ soft' \subseteq Filter
      BY <1>11 DEF Crash, TypeOK
    <3>6. UNCHANGED <<parallel, soft, kept, stamps, there, old, cli>>
      BY <1>11 DEF Crash
    <3>7. gate' \in BOOLEAN /\ ctx' \in BOOLEAN /\ resumed' \in BOOLEAN
      BY <3>3
    <3>8. first' \in 1 .. Len(Order)
      BY <3>3, OrderLength
    <3> QED
      BY <3>1, <3>2, <3>3, <3>4, <3>5, <3>6, <3>7, <3>8 DEF TypeOK
  <2>2. Rows'
    BY <1>11
      DEF Crash, Forget, Requeued, runVars, jobVars, workVars, sweepVars, TypeOK, Rows, Masters,
          AtWork, None, Stamp
  <2>3. Masters'
    BY <1>11, SameWave
      DEF Crash, Forget, Requeued, runVars, jobVars, workVars, sweepVars, TypeOK, Rows, Masters,
          AtWork, Stacked
  <2>4. Ends'
    BY <1>11
      DEF Crash, Forget, Requeued, runVars, jobVars, workVars, sweepVars, TypeOK, Rows, Masters,
          Ends, HasImage, Stacked, AtWork
  <2>5. Keeps'
    BY <1>11
      DEF Crash, Forget, Requeued, runVars, jobVars, workVars, sweepVars, TypeOK, Rows, Masters,
          Keeps, AtWork, None
  <2>6. Sweeps'
    BY <1>11
      DEF Crash, Forget, Requeued, runVars, jobVars, workVars, sweepVars, TypeOK, Rows, Sweeps,
          None, Stamp
  <2>7. Anew'
    BY <1>11
      DEF Crash, Forget, Requeued, runVars, jobVars, workVars, sweepVars, TypeOK, Rows, Masters,
          Anew, Sweeps, AtWork, None
  <2> QED
    BY <2>1, <2>2, <2>3, <2>4, <2>5, <2>6, <2>7
<1>12. ASSUME NEW f \in Filter, Link(f) PROVE Inv'
  <2>1. TypeOK'
    BY <1>12, OrderLength
      DEF Link, runVars, jobVars, workVars, sweepVars, TypeOK, Rows, Masters, Stamp, ChState,
          AtWork
  <2>2. Rows'
    BY <1>12
      DEF Link, runVars, jobVars, workVars, sweepVars, TypeOK, Rows, Masters, AtWork, None,
          Stamp
  <2>3. Masters'
    BY <1>12, SameWave
      DEF Link, runVars, jobVars, workVars, sweepVars, TypeOK, Rows, Masters, AtWork, Stacked
  <2>4. Ends'
    BY <1>12
      DEF Link, runVars, jobVars, workVars, sweepVars, TypeOK, Rows, Masters, Ends, HasImage,
          Stacked, AtWork
  <2>5. Keeps'
    BY <1>12
      DEF Link, runVars, jobVars, workVars, sweepVars, TypeOK, Rows, Masters, Keeps, AtWork,
          None
  <2>6. Sweeps'
    BY <1>12 DEF Link, runVars, jobVars, workVars, sweepVars, TypeOK, Rows, Sweeps, None, Stamp
  <2>7. Anew'
    BY <1>12
      DEF Link, runVars, jobVars, workVars, sweepVars, TypeOK, Rows, Masters, Anew, Sweeps,
          AtWork, None
  <2> QED
    BY <2>1, <2>2, <2>3, <2>4, <2>5, <2>6, <2>7
<1>13. ASSUME NEW f \in Filter, Stack(f) PROVE Inv'
  <2>1. TypeOK'
    BY <1>13, OrderLength
      DEF Stack, Fails, runVars, jobVars, workVars, sweepVars, TypeOK, Rows, Masters, Stamp, ChState,
          AtWork
  <2>2. Rows'
    BY <1>13
      DEF Stack, Fails, runVars, jobVars, workVars, sweepVars, TypeOK, Rows, Masters, AtWork, None,
          Stamp
  <2>3. Masters'
    BY <1>13, SameWave
      DEF Stack, Fails, runVars, jobVars, workVars, sweepVars, TypeOK, Rows, Masters, AtWork, Stacked
  <2>4. Ends'
    BY <1>13
      DEF Stack, Fails, runVars, jobVars, workVars, sweepVars, TypeOK, Rows, Masters, Ends, HasImage,
          Stacked, AtWork
  <2>5. Keeps'
    BY <1>13
      DEF Stack, Fails, runVars, jobVars, workVars, sweepVars, TypeOK, Rows, Masters, Keeps, AtWork,
          None
  <2>6. Sweeps'
    BY <1>13 DEF Stack, Fails, runVars, jobVars, workVars, sweepVars, TypeOK, Rows, Sweeps, None, Stamp
  <2>7. Anew'
    BY <1>13
      DEF Stack, Fails, runVars, jobVars, workVars, sweepVars, TypeOK, Rows, Masters, Anew, Sweeps,
          AtWork, None
  <2> QED
    BY <2>1, <2>2, <2>3, <2>4, <2>5, <2>6, <2>7
<1>14. ASSUME NEW f \in Filter, Finish(f) PROVE Inv'
  <2>1. TypeOK'
    BY <1>14, OrderLength
      DEF Finish, runVars, jobVars, workVars, sweepVars, TypeOK, Rows, Masters, Stamp, ChState,
          AtWork
  <2>2. Rows'
    BY <1>14
      DEF Finish, runVars, jobVars, workVars, sweepVars, TypeOK, Rows, Masters, AtWork, None,
          Stamp
  <2>3. Masters'
    BY <1>14, SameWave
      DEF Finish, runVars, jobVars, workVars, sweepVars, TypeOK, Rows, Masters, AtWork, Stacked
  <2>4. Ends'
    BY <1>14
      DEF Finish, runVars, jobVars, workVars, sweepVars, TypeOK, Rows, Masters, Ends, HasImage,
          Stacked, AtWork
  <2>5. Keeps'
    BY <1>14
      DEF Finish, runVars, jobVars, workVars, sweepVars, TypeOK, Rows, Masters, Keeps, AtWork,
          None
  <2>6. Sweeps'
    BY <1>14
      DEF Finish, runVars, jobVars, workVars, sweepVars, TypeOK, Rows, Sweeps, None, Stamp
  <2>7. Anew'
    BY <1>14
      DEF Finish, runVars, jobVars, workVars, sweepVars, TypeOK, Rows, Masters, Anew, Sweeps,
          AtWork, None
  <2> QED
    BY <2>1, <2>2, <2>3, <2>4, <2>5, <2>6, <2>7
<1>15. ASSUME NEW s \in Sweeper, NEW d \in Stamp, Sweep(s, d) PROVE Inv'
  <2>1. TypeOK'
    BY <1>15, OrderLength
      DEF Sweep, SweepRemoves, SweepStep, runVars, jobVars, workVars, sweepVars, TypeOK, Rows,
          Masters, Stamp, ChState, AtWork
  <2>2. Rows'
    BY <1>15
      DEF Sweep, SweepRemoves, SweepStep, runVars, jobVars, workVars, sweepVars, TypeOK, Rows,
          Masters, AtWork, None, Stamp
  <2>3. Masters'
    BY <1>15, SameWave
      DEF Sweep, SweepRemoves, SweepStep, runVars, jobVars, workVars, sweepVars, TypeOK, Rows,
          Masters, AtWork, Stacked
  <2>4. Ends'
    BY <1>15
      DEF Sweep, SweepRemoves, SweepStep, runVars, jobVars, workVars, sweepVars, TypeOK, Rows,
          Masters, Ends, HasImage, Stacked, AtWork
  <2>5. Keeps'
    BY <1>15
      DEF Sweep, SweepRemoves, SweepStep, runVars, jobVars, workVars, sweepVars, TypeOK, Rows,
          Masters, Keeps, AtWork, None
  <2>6. Sweeps'
    BY <1>15
      DEF Sweep, SweepRemoves, SweepStep, runVars, jobVars, workVars, sweepVars, TypeOK, Rows,
          Sweeps, None, Stamp
  <2>7. Anew'
    BY <1>15
      DEF Sweep, SweepRemoves, SweepStep, runVars, jobVars, workVars, sweepVars, TypeOK, Rows,
          Masters, Anew, Sweeps, AtWork, None
  <2> QED
    BY <2>1, <2>2, <2>3, <2>4, <2>5, <2>6, <2>7
<1>16. ASSUME NEW d \in Stamp, Age(d), UNCHANGED <<runVars, jobVars>> PROVE Inv'
  <2>1. TypeOK'
    BY <1>16, OrderLength
      DEF Age, runVars, jobVars, workVars, sweepVars, TypeOK, Rows, Masters, Stamp, ChState,
          AtWork
  <2>2. Rows'
    BY <1>16
      DEF Age, runVars, jobVars, workVars, sweepVars, TypeOK, Rows, Masters, AtWork, None, Stamp
  <2>3. Masters'
    BY <1>16, SameWave
      DEF Age, runVars, jobVars, workVars, sweepVars, TypeOK, Rows, Masters, AtWork, Stacked
  <2>4. Ends'
    BY <1>16
      DEF Age, runVars, jobVars, workVars, sweepVars, TypeOK, Rows, Masters, Ends, HasImage,
          Stacked, AtWork
  <2>5. Keeps'
    BY <1>16
      DEF Age, runVars, jobVars, workVars, sweepVars, TypeOK, Rows, Masters, Keeps, AtWork, None
  <2>6. Sweeps'
    BY <1>16 DEF Age, runVars, jobVars, workVars, sweepVars, TypeOK, Rows, Sweeps, None, Stamp
  <2>7. Anew'
    BY <1>16
      DEF Age, runVars, jobVars, workVars, sweepVars, TypeOK, Rows, Masters, Anew, Sweeps,
          AtWork, None
  <2> QED
    BY <2>1, <2>2, <2>3, <2>4, <2>5, <2>6, <2>7
<1>17. ASSUME NEW d \in Stamp, CliEnds(d), UNCHANGED <<runVars, jobVars>> PROVE Inv'
  <2>1. TypeOK'
    BY <1>17, OrderLength
      DEF CliEnds, runVars, jobVars, workVars, sweepVars, TypeOK, Rows, Masters, Stamp, ChState,
          AtWork
  <2>2. Rows'
    BY <1>17
      DEF CliEnds, runVars, jobVars, workVars, sweepVars, TypeOK, Rows, Masters, AtWork, None,
          Stamp
  <2>3. Masters'
    BY <1>17, SameWave
      DEF CliEnds, runVars, jobVars, workVars, sweepVars, TypeOK, Rows, Masters, AtWork, Stacked
  <2>4. Ends'
    BY <1>17
      DEF CliEnds, runVars, jobVars, workVars, sweepVars, TypeOK, Rows, Masters, Ends, HasImage,
          Stacked, AtWork
  <2>5. Keeps'
    BY <1>17
      DEF CliEnds, runVars, jobVars, workVars, sweepVars, TypeOK, Rows, Masters, Keeps, AtWork,
          None
  <2>6. Sweeps'
    BY <1>17
      DEF CliEnds, runVars, jobVars, workVars, sweepVars, TypeOK, Rows, Sweeps, None, Stamp
  <2>7. Anew'
    BY <1>17
      DEF CliEnds, runVars, jobVars, workVars, sweepVars, TypeOK, Rows, Masters, Anew, Sweeps,
          AtWork, None
  <2> QED
    BY <2>1, <2>2, <2>3, <2>4, <2>5, <2>6, <2>7
<1>18. CASE CliStarts /\ UNCHANGED <<runVars, jobVars>>
  <2>1. TypeOK'
    BY <1>18, OrderLength
      DEF CliStarts, NewStamp, runVars, jobVars, workVars, sweepVars, TypeOK, Rows, Masters,
          Stamp, ChState, AtWork
  <2>2. Rows'
    BY <1>18
      DEF CliStarts, NewStamp, runVars, jobVars, workVars, sweepVars, TypeOK, Rows, Masters,
          AtWork, None, Stamp
  <2>3. Masters'
    BY <1>18, SameWave
      DEF CliStarts, NewStamp, runVars, jobVars, workVars, sweepVars, TypeOK, Rows, Masters,
          AtWork, Stacked
  <2>4. Ends'
    BY <1>18
      DEF CliStarts, NewStamp, runVars, jobVars, workVars, sweepVars, TypeOK, Rows, Masters,
          Ends, HasImage, Stacked, AtWork
  <2>5. Keeps'
    BY <1>18
      DEF CliStarts, NewStamp, runVars, jobVars, workVars, sweepVars, TypeOK, Rows, Masters,
          Keeps, AtWork, None
  <2>6. Sweeps'
    BY <1>18
      DEF CliStarts, NewStamp, runVars, jobVars, workVars, sweepVars, TypeOK, Rows, Sweeps,
          None, Stamp
  <2>7. Anew'
    BY <1>18
      DEF CliStarts, NewStamp, runVars, jobVars, workVars, sweepVars, TypeOK, Rows, Masters,
          Anew, Sweeps, AtWork, None
  <2> QED
    BY <2>1, <2>2, <2>3, <2>4, <2>5, <2>6, <2>7
<1>19. ASSUME NEW s \in Sweeper, SweepChecks(s), UNCHANGED <<runVars, jobVars>> PROVE Inv'
  <2>1. TypeOK'
    BY <1>19, OrderLength
      DEF SweepChecks, SweepStep, Stale, runVars, jobVars, workVars, sweepVars, TypeOK, Rows,
          Masters, Stamp, ChState, AtWork
  <2>2. Rows'
    BY <1>19
      DEF SweepChecks, SweepStep, Stale, runVars, jobVars, workVars, sweepVars, TypeOK, Rows,
          Masters, AtWork, None, Stamp
  <2>3. Masters'
    BY <1>19, SameWave
      DEF SweepChecks, SweepStep, Stale, runVars, jobVars, workVars, sweepVars, TypeOK, Rows,
          Masters, AtWork, Stacked
  <2>4. Ends'
    BY <1>19
      DEF SweepChecks, SweepStep, Stale, runVars, jobVars, workVars, sweepVars, TypeOK, Rows,
          Masters, Ends, HasImage, Stacked, AtWork
  <2>5. Keeps'
    BY <1>19
      DEF SweepChecks, SweepStep, Stale, runVars, jobVars, workVars, sweepVars, TypeOK, Rows,
          Masters, Keeps, AtWork, None
  <2>6. Sweeps'
    BY <1>19
      DEF SweepChecks, SweepStep, Stale, runVars, jobVars, workVars, sweepVars, TypeOK, Rows,
          Sweeps, None, Stamp
  <2>7. Anew'
    BY <1>19
      DEF SweepChecks, SweepStep, Stale, runVars, jobVars, workVars, sweepVars, TypeOK, Rows,
          Masters, Anew, Sweeps, AtWork, None
  <2> QED
    BY <2>1, <2>2, <2>3, <2>4, <2>5, <2>6, <2>7
<1>20. ASSUME NEW s \in Sweeper, SweepLists(s), UNCHANGED <<runVars, jobVars>> PROVE Inv'
  <2>1. TypeOK'
    BY <1>20, OrderLength
      DEF SweepLists, SweepStep, Stale, runVars, jobVars, workVars, sweepVars, TypeOK, Rows,
          Masters, Stamp, ChState, AtWork
  <2>2. Rows'
    BY <1>20
      DEF SweepLists, SweepStep, Stale, runVars, jobVars, workVars, sweepVars, TypeOK, Rows,
          Masters, AtWork, None, Stamp
  <2>3. Masters'
    BY <1>20, SameWave
      DEF SweepLists, SweepStep, Stale, runVars, jobVars, workVars, sweepVars, TypeOK, Rows,
          Masters, AtWork, Stacked
  <2>4. Ends'
    BY <1>20
      DEF SweepLists, SweepStep, Stale, runVars, jobVars, workVars, sweepVars, TypeOK, Rows,
          Masters, Ends, HasImage, Stacked, AtWork
  <2>5. Keeps'
    BY <1>20
      DEF SweepLists, SweepStep, Stale, runVars, jobVars, workVars, sweepVars, TypeOK, Rows,
          Masters, Keeps, AtWork, None
  <2>6. Sweeps'
    BY <1>20
      DEF SweepLists, SweepStep, Stale, runVars, jobVars, workVars, sweepVars, TypeOK, Rows,
          Sweeps, None, Stamp
  <2>7. Anew'
    BY <1>20
      DEF SweepLists, SweepStep, Stale, runVars, jobVars, workVars, sweepVars, TypeOK, Rows,
          Masters, Anew, Sweeps, AtWork, None
  <2> QED
    BY <2>1, <2>2, <2>3, <2>4, <2>5, <2>6, <2>7
<1>21. ASSUME NEW s \in Sweeper, SweepLooks(s), UNCHANGED <<runVars, jobVars>> PROVE Inv'
  <2>1. TypeOK'
    BY <1>21, OrderLength
      DEF SweepLooks, SweepStep, Stale, runVars, jobVars, workVars, sweepVars, TypeOK, Rows,
          Masters, Stamp, ChState, AtWork
  <2>2. Rows'
    BY <1>21
      DEF SweepLooks, SweepStep, Stale, runVars, jobVars, workVars, sweepVars, TypeOK, Rows,
          Masters, AtWork, None, Stamp
  <2>3. Masters'
    BY <1>21, SameWave
      DEF SweepLooks, SweepStep, Stale, runVars, jobVars, workVars, sweepVars, TypeOK, Rows,
          Masters, AtWork, Stacked
  <2>4. Ends'
    BY <1>21
      DEF SweepLooks, SweepStep, Stale, runVars, jobVars, workVars, sweepVars, TypeOK, Rows,
          Masters, Ends, HasImage, Stacked, AtWork
  <2>5. Keeps'
    BY <1>21
      DEF SweepLooks, SweepStep, Stale, runVars, jobVars, workVars, sweepVars, TypeOK, Rows,
          Masters, Keeps, AtWork, None
  <2>6. Sweeps'
    BY <1>21
      DEF SweepLooks, SweepStep, Stale, runVars, jobVars, workVars, sweepVars, TypeOK, Rows,
          Sweeps, None, Stamp
  <2>7. Anew'
    BY <1>21
      DEF SweepLooks, SweepStep, Stale, runVars, jobVars, workVars, sweepVars, TypeOK, Rows,
          Masters, Anew, Sweeps, AtWork, None
  <2> QED
    BY <2>1, <2>2, <2>3, <2>4, <2>5, <2>6, <2>7
<1> QED
  BY <1>1, <1>2, <1>3, <1>4, <1>5, <1>6, <1>7, <1>8, <1>9, <1>10, <1>11, <1>12, <1>13, <1>14, <1>15, <1>16, <1>17, <1>18, <1>19, <1>20, <1>21
    DEF Next, Outside

LEMMA SpecInv == Spec => []Inv
  BY InitInv, NextInv, PTL DEF Spec

-----------------------------------------------------------------------------
(* The theorems.                                                           *)

\* Every variable of the run, the row and the sweep stays in its range.
THEOREM TypeCorrect == Spec => []TypeOK
  BY SpecInv, PTL DEF Inv

\* Whatever pauses, cancels, failing stacks, crashes and sweeps there were: what a
\* run that was not resumed composites was stacked from all its frames and went
\* through the finishing; a resumed run may composite a master that was hit.
THEOREM MastersAreWhole == Spec => []CompositedIsWhole
<1>1. Inv => CompositedIsWhole
  BY DEF Inv, TypeOK, Masters, Anew, CompositedIsWhole, Stacked
<1> QED
  BY <1>1, SpecInv, PTL

\* A job is not written as succeeded without the image of its channels.
THEOREM SuccessHasImage == Spec => []SucceededHasImage
<1>1. Inv => SucceededHasImage
  BY DEF Inv, Ends, HasImage, SucceededHasImage
<1> QED
  BY <1>1, SpecInv, PTL

\* A channel that was finished when the job was parked is not stacked again.
THEOREM PauseKeeps == Spec => KeptByPause
<1>1. Inv /\ [Next]_vars => [\A f \in Filter : ch[f] = "wait" /\ ch'[f] = "stack" => f \notin kept]_vars
  BY DEF Inv, Keeps, AtWork
<1> QED
  BY <1>1, SpecInv, PTL DEF Spec, KeptByPause

\* The sweep removes neither the directory of a run that was not resumed nor that
\* of a young run of the command line.
THEOREM SweepIsSafe == Spec => SweepSpares
<1>1. Inv /\ [Next]_vars =>
        [\A d \in there \ there' : ~(d = run /\ ~resumed) /\ (d \in cli => d \in old)]_vars
  <2> SUFFICES ASSUME Inv, Next, NEW d \in there \ there'
               PROVE  ~(d = run /\ ~resumed) /\ (d \in cli => d \in old)
    BY DEF vars, workVars
  <2> USE DEF Inv
  <2>1. ASSUME NEW s \in Sweeper, NEW e \in Stamp, Sweep(s, e)
        PROVE  ~(d = run /\ ~resumed) /\ (d \in cli => d \in old)
    <3>1. spc[s] = "remove" /\ e \in names[s] /\ there' \in {there, there \ {e}}
      BY <2>1 DEF Sweep, SweepRemoves, SweepStep
    <3>2. d = e /\ d \in names[s] /\ names[s] \subseteq old
      BY <3>1 DEF Sweeps
    <3>3. pc = "off" => d # run
      BY DEF Rows, Sweeps, None, TypeOK, Stamp
    <3> QED
      BY <3>1, <3>2, <3>3 DEF Sweeps
  <2>2. ASSUME NEW f \in Filter, Link(f) \/ Stack(f) \/ Finish(f) PROVE FALSE
    BY <2>2 DEF Link, Stack, Finish, workVars
  <2>3. ASSUME Outside PROVE FALSE
    BY <2>3 DEF Outside, Age, CliEnds, CliStarts, SweepChecks, SweepLists, SweepLooks
  <2>4. ASSUME Start \/ OpenWave \/ CloseWave \/ Combine \/ Verdict \/ Return PROVE FALSE
    BY <2>4 DEF Start, OpenWave, CloseWave, Combine, Verdict, Return, workVars
  <2>5. ASSUME Cancel \/ Pause \/ Continue \/ Crash PROVE FALSE
    BY <2>5 DEF Cancel, Pause, Continue, Crash, workVars
  <2> QED
    BY <2>1, <2>2, <2>3, <2>4, <2>5 DEF Next
<1> QED
  BY <1>1, SpecInv, PTL DEF Spec, SweepSpares
=============================================================================
