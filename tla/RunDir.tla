--------------------------------- MODULE RunDir ---------------------------------
(***************************************************************************)
(* The files a deep-sky run leaves in its directory and the jobs that work *)
(* on them afterwards: the run itself (Process, combine, finishAligned), a *)
(* rerun from an edited parameter (RerunFromStage) and a refinement        *)
(* (RefineExistingRun).  Each file is abstracted to its provenance: the    *)
(* settings that made it.  A job re-enters at the cheapest tier that       *)
(* reflects an edit and trusts what is on disk below it, so that every     *)
(* file must be what the checkpoint (stages.json) says it is.              *)
(*                                                                         *)
(* Jobs over one directory run one at a time (they lock the same capture   *)
(* folders); a step may fail, and a job may die between two steps.         *)
(***************************************************************************)
EXTENDS Integers, FiniteSets

CONSTANTS
  Filters,     \* the filters of a capture, unless it is a dual-band colour one (see splits)
  None,        \* no such file
  MaxJobs,     \* bound: jobs after the run
  MaxPasses,   \* bound: passes of the star repair in one job
  MaxFaults    \* bound: steps that fail

ASSUME FilterAssumption == Filters # {} /\ IsFiniteSet(Filters) /\ None \notin Filters
ASSUME BoundAssumption  == MaxJobs \in Nat /\ MaxPasses \in Nat /\ MaxFaults \in Nat

Val == {0, 1}
\* The knobs of a preset that the tiers tell apart: how frames are stacked, how
\* the linear prep is made, the emission screens, and the look of the composite.
Preset == [stack : Val, prep : Val, screen : Val, look : Val]
Given0 == [stack |-> 0, prep |-> 0, screen |-> 0, look |-> 0]

A == 0
B == 1
C == 2

\* Broken variant: the composite's knobs are looked at first.
TierOfCheapest(p, q) == IF p.look # q.look \/ p.screen # q.screen THEN A
                        ELSE IF p.prep # q.prep THEN B ELSE IF p.stack # q.stack THEN C ELSE A

\* tierOf: the most expensive stage a change needs.
TierOf(p, q) == IF p.stack # q.stack THEN C ELSE IF p.prep # q.prep THEN B ELSE A

\* The channels separated from the master of a dual-band colour capture.
Separated == {"Ha", "OIII"}
\* The channels that registerSynthesizedChannels adds to a record.
Emission == {"Ha", "OIII", "SII"}
\* The keys of the channel maps, and the tags of the files.
Key == Filters \cup {"B", "RGB"} \cup Separated

\* How a master was stacked: with which knob, and over the sets the user excluded too.
Stamp == [knob : Val, all : BOOLEAN]
File == Stamp \cup {None}
\* A channel to composite: its file, whether that is cut to the clean field, its stamp.
Source == [from : {"master", "aligned", "combine", "syn"}, trim : BOOLEAN, stamp : File]
SynFile == [from : {"syn"}, trim : BOOLEAN, stamp : File]
ASSUME NoneAssumption == None \notin Stamp \cup Preset \cup Source

\* What the Siril fallback makes of a knob it does not know.
Ignored == 2

VARIABLES
  master, aligned, combined,   \* master_<tag>, aligned_<tag>, combine_<tag>: their stamps
  syn,           \* syn_<tag>: the channels separated from a colour master
  prep,          \* linear/prep.json and the TIFFs beside it
  final,         \* final.*
  manifest,      \* stages.json: a preset
  record,        \* run.json: the filters of its channels
  named,         \* the same in memory, registerSynthesizedChannels included
  kind, pc,      \* the job at work, and its step
  given, work,   \* opts.Preset of the job; the working preset of a pass
  tier, finish,  \* its re-entry tier; who renders: "plain", "agent" or "stars"
  todo, got,     \* filters to stack, and stacked, by this (re-)stack
  chan, mix,     \* the channels to composite, and those with the separated ones
  lin,           \* the linear prep in memory
  cand, best,    \* the last pass's image, and the best one's
  passes, jobs, faults,
  excludes,      \* the user excluded sets of frames from the run
  asBlue,        \* paletteWantsOIIIAsBlue of its palette
  splits,        \* the run is of a dual-band colour capture, with a narrowband palette
  why, doubt     \* history: this job did, and some job did, what the checkpoint does not tell

masters == <<master, aligned, combined>>
disk    == <<masters, syn, prep, final, manifest, record>>
stacks  == <<todo, got>>
loop    == <<cand, best, passes>>
plan    == <<kind, given, tier>>
options == <<excludes, asBlue, splits>>
counts  == <<jobs, faults, options>>
vars    == <<disk, kind, pc, given, work, tier, finish, stacks, chan, mix, named, lin, loop, counts,
             why, doubt>>

Empty == [k \in {} |-> None]

\* What is stacked: a colour capture has one channel.
Planned == IF splits THEN {"RGB"} ELSE Filters

Init ==
  /\ master = [k \in Key |-> None] /\ aligned = [k \in Key |-> None] /\ combined = [k \in Key |-> None]
  /\ syn = [k \in Separated |-> None]
  /\ prep = None /\ final = None /\ manifest = None /\ record = None
  /\ kind = "run" /\ pc = "stack" /\ given = Given0 /\ work = Given0
  /\ tier = C /\ finish \in {"plain", "agent"}
  /\ excludes \in BOOLEAN /\ asBlue \in BOOLEAN /\ splits \in BOOLEAN /\ ~(asBlue /\ splits)
  /\ todo = Planned /\ got = {} /\ chan = Empty /\ mix = Empty /\ named = Planned /\ lin = None
  /\ cand = None /\ best = None /\ passes = 0 /\ jobs = 0 /\ faults = 0
  /\ why = FALSE /\ doubt = FALSE

Fault == faults < MaxFaults /\ faults' = faults + 1
NoFault == UNCHANGED faults
\* The job did something that the checkpoint will not tell; the reason is named.
Untold(reasons) == why' = (why \/ reasons # {})

-----------------------------------------------------------------------------
(* Stacking and co-registration.                                           *)

\* reStack: every channel of the plan again.
Restack == todo' = Planned /\ got' = {}

\* The (re-)stack of a channel writes its master, or fails and leaves the old one.
\* A rerun scans the inputs again, without the sets the user excluded.
Stack(f) ==
  /\ pc = "stack" /\ f \in todo
  /\ todo' = todo \ {f}
  /\ \/ /\ got' = got \cup {f}
        /\ master' = [master EXCEPT ![f] = [knob |-> work.stack, all |-> excludes /\ kind = "rerun"]]
        /\ Untold(IF excludes /\ kind = "rerun" THEN {"excluded"} ELSE {})
        /\ NoFault
     \/ /\ Fault /\ UNCHANGED <<got, master, why>>
  /\ UNCHANGED <<aligned, combined, syn, prep, final, manifest, record, plan, pc, work, finish, chan, mix,
                 named, lin, loop, jobs, options, doubt>>

\* channelMastersMap: OIII stands in for B when no B was stacked.
KeyOf(f) == IF asBlue /\ f = "OIII" /\ "B" \notin got THEN "B" ELSE f

\* The channels on disk, by a re-entry that does not stack: the cropped file,
\* else the aligned one, else the master, else the separated one, under the
\* filter's own name.  Nobody looks for the trim_<tag> of applyEdgeCrop.
FileOf(f) ==
  CASE combined[f] # None -> [from |-> "combine", trim |-> FALSE, stamp |-> combined[f]]
    [] combined[f] = None /\ aligned[f] # None -> [from |-> "aligned", trim |-> FALSE, stamp |-> aligned[f]]
    [] combined[f] = None /\ aligned[f] = None /\ f \in Separated /\ master[f] = None /\ syn[f] # None -> syn[f]
    [] OTHER -> [from |-> "master", trim |-> FALSE, stamp |-> master[f]]
FromDisk == [f \in {f \in record : FileOf(f).stamp # None} |-> FileOf(f)]

Unaligned(K) == [k \in K |-> [from |-> "master", trim |-> FALSE, stamp |-> master[k]]]
Aligned(K) == [k \in K |-> [from |-> "aligned", trim |-> FALSE,
                            stamp |-> master[CHOOSE f \in got : KeyOf(f) = k]]]
Register(S) == aligned' = [k \in Key |-> IF k \in S THEN Aligned(S)[k].stamp ELSE aligned[k]]

\* Broken variant: the channels to composite are looked up on disk.
CompositeFromDisk(c) == chan' = IF kind = "rerun" THEN FromDisk ELSE c

\* The channels to composite are the ones just stacked.
CompositeOf(c) == chan' = c

\* alignChannels: one channel needs no registration; else all are registered, or
\* none, or some: a missing R, G or B then sends every channel back to its master
\* and any other is left out.  The files of an earlier registration stay.
Align ==
  LET K == {KeyOf(f) : f \in got}
      asB == IF K \subseteq got THEN {} ELSE {"substituted"} IN
  /\ pc = "stack" /\ todo = {} /\ got # {}
  /\ pc' = IF kind = "run" THEN "crop" ELSE "prep"
  /\ \/ /\ Cardinality(K) = 1 /\ NoFault
        /\ CompositeOf(Unaligned(K)) /\ UNCHANGED aligned
        /\ Untold(asB \cup (IF \E k \in K : aligned[k] # None THEN {"unaligned"} ELSE {}))
     \/ /\ Cardinality(K) > 1 /\ NoFault
        /\ Register(K) /\ CompositeOf(Aligned(K)) /\ Untold(asB)
     \/ /\ Cardinality(K) > 1 /\ Fault /\ Untold({"unaligned"})
        /\ \E S \in SUBSET K \ {K} :
             /\ Register(S)
             /\ CompositeOf(IF S = {} \/ (K \ S) \cap {"R", "G", "B"} # {} THEN Unaligned(K) ELSE Aligned(S))
  /\ UNCHANGED <<master, combined, syn, prep, final, manifest, record, plan, work, finish, stacks, mix, named,
                 lin, loop, jobs, options, doubt>>

\* applyCoverageCrop, only in the run's own combine: nothing to cut, every
\* channel cut, or the cut of one fails and all are composited uncut.
Crop ==
  /\ pc = "crop" /\ pc' = "edge"
  /\ \/ UNCHANGED <<combined, chan, why>> /\ NoFault
     \/ /\ combined' = [k \in Key |-> IF k \in DOMAIN chan THEN chan[k].stamp ELSE None]
        /\ chan' = [k \in DOMAIN chan |-> [chan[k] EXCEPT !.from = "combine"]]
        /\ NoFault /\ UNCHANGED why
     \/ \E S \in SUBSET DOMAIN chan \ {DOMAIN chan} :
          /\ Fault /\ Untold({"cropped"})
          /\ combined' = [k \in Key |-> IF k \in S THEN chan[k].stamp ELSE None]
          /\ UNCHANGED chan
  /\ UNCHANGED <<master, aligned, syn, prep, final, manifest, record, plan, work, finish, stacks, mix, named,
                 lin, loop, jobs, options, doubt>>

Readable == \A k \in DOMAIN chan : chan[k].stamp # None

\* applyEdgeCrop, only there too: the channels are composited from copies cut to
\* the field that every one of them covers cleanly, or, when there is nothing to
\* cut or a copy fails, as they are.
EdgeCrop ==
  /\ pc = "edge" /\ pc' = "prep"
  /\ \/ Readable /\ chan' = [k \in DOMAIN chan |-> [chan[k] EXCEPT !.trim = TRUE]]
     \/ UNCHANGED chan
  /\ UNCHANGED <<disk, plan, work, finish, stacks, mix, named, lin, loop, counts, why, doubt>>

-----------------------------------------------------------------------------
(* The finish.                                                             *)

\* duobandChannels: Ha and OIII are separated from the colour master, unless the
\* map has them already.
Splits(c) == splits /\ "Ha" \notin DOMAIN c /\ "RGB" \in DOMAIN c
SplitOf(c) == [from |-> "syn", trim |-> c["RGB"].trim, stamp |-> c["RGB"].stamp]
Shown(c) == [k \in DOMAIN c \cup (IF Splits(c) THEN Separated ELSE {}) |->
               IF Splits(c) /\ k \in Separated THEN SplitOf(c) ELSE c[k]]

\* prepGimpInputs, its start: the separation, which may fail, with or without a new
\* syn_Ha; registerSynthesizedChannels names the emission channels of the map.
Separate ==
  /\ pc = "prep" /\ finish = "plain" /\ Readable
  /\ pc' = "base"
  /\ \/ /\ mix' = Shown(chan) /\ NoFault /\ UNCHANGED why
        /\ syn' = IF Splits(chan) THEN [k \in Separated |-> SplitOf(chan)] ELSE syn
     \/ /\ Splits(chan) /\ Fault /\ Untold({"unseparated"})
        /\ mix' = chan /\ syn' \in {syn, [syn EXCEPT !["Ha"] = SplitOf(chan)]}
  /\ named' = named \cup (Emission \cap DOMAIN mix')
  /\ UNCHANGED <<masters, prep, final, manifest, record, plan, work, finish, stacks, chan, lin, loop, jobs,
                 options, doubt>>

Linear(torn) == [shown |-> mix, prep |-> work.prep, screen |-> work.screen, torn |-> torn]

\* prepGimpInputs: the linear prep, which it also copies to linear/.  A copy that
\* fails leaves the earlier prep.json with its own TIFFs or some of the new ones.
MakePrep ==
  /\ pc = "base" /\ pc' = "composite"
  /\ lin' = Linear(FALSE) /\ mix' = Empty
  /\ \/ prep' = Linear(FALSE) /\ NoFault /\ UNCHANGED why
     \/ /\ Fault /\ Untold({"unpersisted"})
        /\ prep' \in {prep} \cup (IF prep # None THEN {Linear(TRUE)} ELSE {})
  /\ UNCHANGED <<masters, syn, final, manifest, record, plan, work, finish, stacks, chan, named, loop, jobs,
                 options, doubt>>

\* finishComposite, or buildComposite inside the star repair: only the latter
\* sets the screens again from the working preset.
Image == [shown |-> lin.shown, prep |-> lin.prep, torn |-> lin.torn, look |-> work.look,
          screen |-> IF finish = "plain" THEN lin.screen ELSE work.screen]

Composite ==
  /\ pc = "composite"
  /\ IF finish = "plain"
     THEN /\ final' = Image /\ UNCHANGED cand
          /\ pc' = IF kind = "rerun" THEN "record" ELSE "stars"
          /\ Untold(IF Image.screen # work.screen THEN {"screen"} ELSE {})
     ELSE cand' = Image /\ pc' = "judge" /\ UNCHANGED <<final, why>>
  /\ UNCHANGED <<masters, syn, prep, manifest, record, plan, work, finish, stacks, chan, mix, named, lin,
                 best, passes, counts, doubt>>

\* A pass of the star repair over a linear prep: another look (see Panic for the rest).
StarPass(base) ==
  /\ base # None /\ passes < MaxPasses /\ passes' = passes + 1
  /\ \E p \in {[work EXCEPT !.look = v] : v \in Val \ {work.look}} : TierOf(work, p) = A /\ work' = p
  /\ pc' = "composite"

\* The repair ends: its best pass, if there is one, becomes the final image.
Promote(b) ==
  /\ final' = (IF b = None THEN final ELSE b) /\ Untold(IF b = None THEN {} ELSE {"repaired"})
  /\ pc' = "record"

\* autoFixStars: the final is clean, or the repair starts from the prep on disk.
CheckStars ==
  /\ pc = "stars"
  /\ \/ pc' = "record" /\ UNCHANGED <<work, finish, lin, passes>>
     \/ finish' = "stars" /\ lin' = prep /\ StarPass(prep)
  /\ UNCHANGED <<disk, plan, stacks, chan, mix, named, cand, best, counts, why, doubt>>

\* runStarFix: a pass that is no better ends the repair.
JudgeStars ==
  /\ pc = "judge"
  /\ \/ Promote(best) /\ UNCHANGED <<best, work, passes>>
     \/ /\ best' = cand
        /\ \/ Promote(cand) /\ UNCHANGED <<work, passes>>
           \/ StarPass(lin) /\ UNCHANGED <<final, why>>
  /\ cand' = None
  /\ UNCHANGED <<masters, syn, prep, manifest, record, plan, finish, stacks, chan, mix, named, lin, counts,
                 doubt>>

-----------------------------------------------------------------------------
(* The end of a job.                                                       *)

Rest ==
  /\ kind' = "none" /\ pc' = "idle" /\ finish' = "plain" /\ tier' = A
  /\ given' = Given0 /\ work' = Given0 /\ todo' = {} /\ got' = {} /\ chan' = Empty
  /\ mix' = Empty /\ named' = {}
  /\ lin' = None /\ cand' = None /\ best' = None /\ passes' = 0 /\ why' = FALSE

\* filterChannelRecords: the channels the rerun composited, by name.
Kept == IF named \cap DOMAIN chan = {} THEN named ELSE named \cap DOMAIN chan

\* writeStageManifest, by a run and a rerun: the preset the job was given.
Checkpoint == IF kind = "refine" THEN UNCHANGED manifest ELSE manifest' = given

\* run.json and stages.json are written (the latter may fail); a run that
\* stacked nothing has no image.  A re-stack that went well settles every doubt.
Record ==
  /\ \/ pc = "record"
     \/ pc = "stack" /\ kind = "run" /\ todo = {} /\ got = {}
  /\ record' = IF kind = "rerun" THEN Kept ELSE named
  /\ LET cropped == kind = "rerun" /\ tier = C /\ \E k \in Key : combined[k] # None
         unrecorded == ~(DOMAIN chan \subseteq record')
         told == ~(why \/ cropped \/ unrecorded \/ kind = "refine")
         settled == kind = "rerun" /\ tier = C
     IN \/ Checkpoint /\ NoFault /\ doubt' = ~(told /\ (settled \/ ~doubt))
        \/ Fault /\ kind # "refine" /\ UNCHANGED manifest /\ doubt' = TRUE
  /\ Rest
  /\ UNCHANGED <<masters, syn, prep, final, jobs, options>>

\* A step of the finish fails, for want of a file or for another reason.
StepFails == (pc = "prep" /\ ~Readable /\ NoFault) \/ (pc \in {"prep", "base", "composite"} /\ Fault)

\* The standard finish of a run or a refinement falls back to Siril, which knows
\* some knobs of the prep and of the look, and no screens; a run may go without
\* an image.  A rerun has no fallback.
FinishFails ==
  /\ kind # "rerun" /\ finish = "plain" /\ StepFails
  /\ pc' = "record"
  /\ \/ /\ Readable /\ Untold({"fallback"})
        /\ final' \in [shown : {chan}, prep : {work.prep, Ignored}, torn : {FALSE},
                       look : {work.look, Ignored}, screen : {Ignored}]
     \/ kind = "run" /\ final' = None /\ UNCHANGED why
  /\ UNCHANGED <<masters, syn, prep, manifest, record, plan, work, finish, stacks, chan, mix, named, lin, loop,
                 jobs, options, doubt>>

\* A pass of the repair fails: the best one so far is kept.
PassFails ==
  /\ pc = "composite" /\ finish = "stars" /\ Fault
  /\ Promote(best)
  /\ UNCHANGED <<masters, syn, prep, manifest, record, plan, work, finish, stacks, chan, mix, named, lin,
                 loop, jobs, options, doubt>>

\* superviseFinishDeepsky fails before it renders: the standard finish.
AgentGivesWay ==
  /\ pc = "prep" /\ finish = "agent" /\ Fault
  /\ finish' = "plain"
  /\ UNCHANGED <<disk, plan, pc, work, stacks, chan, mix, named, lin, loop, jobs, options, why, doubt>>

\* buildBase hands prepGimpInputs no Result, and prepGimpInputs reads its
\* Inventory: the first pass of an agent panics, and so does a pass of the star
\* repair that needs the linear prep again.  The job ends without a record.
Panic ==
  /\ \/ pc = "prep" /\ finish = "agent" /\ UNCHANGED doubt
     \/ pc \in {"stars", "judge"} /\ passes < MaxPasses /\ doubt' = TRUE
  /\ Rest
  /\ UNCHANGED <<disk, counts>>

\* A rerun or a refinement ends early: a step of it failed, nothing was stacked,
\* or the program died.
Die ==
  /\ kind \in {"rerun", "refine"}
  /\ (pc = "prep" /\ ~Readable /\ NoFault) \/ (pc = "stack" /\ todo = {} /\ got = {} /\ NoFault) \/ Fault
  /\ doubt' = TRUE
  /\ Rest
  /\ UNCHANGED <<disk, jobs, options>>

-----------------------------------------------------------------------------
(* The jobs after the run.                                                 *)

Begin(k, p, t, f) ==
  /\ pc = "idle" /\ record # None /\ jobs < MaxJobs
  /\ jobs' = jobs + 1
  /\ kind' = k /\ given' = p /\ work' = p /\ tier' = t /\ finish' = f /\ named' = record
  /\ UNCHANGED <<disk, mix, loop, faults, options, why, doubt>>

Baseline == IF manifest = None THEN Given0 ELSE manifest

\* tierForStage, for one stage of each tier.
Stage == {"stacked", "combined", "final"}
TierForStage(s) == CASE s = "stacked" -> C [] s = "combined" -> B [] OTHER -> A

\* RerunFromStage: an edit of the checkpoint's preset, and the stage the user
\* restarts from; the higher of their tiers.
Rerun(p, stage) ==
  LET floor == TierForStage(stage)
      t == IF floor > TierOf(Baseline, p) THEN floor ELSE TierOf(Baseline, p) IN
  /\ Begin("rerun", p, t, "plain")
  /\ IF t = C
     THEN Restack /\ pc' = "stack" /\ chan' = Empty /\ lin' = None
     ELSE /\ FromDisk # Empty /\ chan' = FromDisk /\ UNCHANGED stacks
          /\ IF t = A /\ prep # None THEN lin' = prep /\ pc' = "composite"
                                     ELSE lin' = None /\ pc' = "prep"

\* RefineExistingRun: the job's own preset, edited or not, from the files on disk.
Refine(p, agent) ==
  /\ Begin("refine", p, B, IF agent THEN "agent" ELSE "plain")
  /\ FromDisk # Empty /\ chan' = FromDisk
  /\ lin' = None /\ pc' = "prep" /\ UNCHANGED stacks

Next ==
  \/ \E f \in Planned : Stack(f)
  \/ Align \/ Crop \/ EdgeCrop \/ Separate \/ MakePrep \/ Composite
  \/ CheckStars \/ JudgeStars
  \/ Record \/ FinishFails \/ PassFails \/ AgentGivesWay \/ Panic \/ Die
  \/ \E p \in Preset, stage \in Stage : Rerun(p, stage)
  \/ \E p \in {p \in Preset : p.stack = 0}, agent \in BOOLEAN : Refine(p, agent)

Spec == Init /\ [][Next]_vars

-----------------------------------------------------------------------------
(* Properties.                                                             *)

Channels == UNION {[K -> Source] : K \in SUBSET Key}
LinearPrep == [shown : Channels, prep : Val, screen : Val, torn : BOOLEAN]
Picture == [shown : Channels, prep : Val \cup {Ignored}, torn : BOOLEAN, look : Val \cup {Ignored},
            screen : Val \cup {Ignored}]

\* The kinds of file and the states of a job: what the variables range over.
TypeOK ==
  /\ master \in [Key -> File] /\ aligned \in [Key -> File] /\ combined \in [Key -> File]
  /\ syn \in [Separated -> SynFile \cup {None}]
  /\ {prep, lin} \subseteq LinearPrep \cup {None}
  /\ {final, cand, best} \subseteq Picture \cup {None}
  /\ manifest \in Preset \cup {None} /\ record \in (SUBSET Key) \cup {None} /\ named \subseteq Key
  /\ kind \in {"none", "run", "rerun", "refine"}
  /\ pc \in {"stack", "crop", "edge", "prep", "base", "composite", "judge", "stars", "record", "idle"}
  /\ given \in Preset /\ work \in Preset
  /\ tier \in {A, B, C} /\ finish \in {"plain", "agent", "stars"}
  /\ todo \subseteq Planned /\ got \subseteq Planned /\ {chan, mix} \subseteq Channels
  /\ passes \in 0..MaxPasses /\ jobs \in 0..MaxJobs /\ faults \in 0..MaxFaults
  /\ {excludes, asBlue, splits, why, doubt} \subseteq BOOLEAN

Idle == pc = "idle"

\* What a finished job left shows the settings of the checkpoint.
Tells ==
  /\ final.prep = manifest.prep /\ final.screen = manifest.screen /\ final.look = manifest.look
  /\ \A k \in DOMAIN final.shown : final.shown[k].stamp = [knob |-> manifest.stack, all |-> FALSE]

\* A rerun that re-enters at the files on disk re-enters where the image came
\* from: at its linear prep, or at its channels, though without the edge trim.
Uncut(c) == [k \in DOMAIN c |-> [c[k] EXCEPT !.trim = FALSE]]
Reenters ==
  /\ Uncut(Shown(FromDisk)) = Uncut(final.shown)
  /\ prep # None => prep.shown = final.shown /\ prep.prep = final.prep /\ ~prep.torn

\* Tiered re-entry is as good as processing everything again, but for the margins
\* that applyEdgeCrop cut from the first image and no rerun cuts again: unless a
\* job did one of the things in doubt (the checkpoint is written whatever they
\* did), the image on disk shows the settings of the checkpoint and the files
\* below it are the ones it was made of, after any sequence of edits (tierOf,
\* RerunFromStage, reconstructChannelsFromDisk).
CheckpointTells ==
  Idle /\ ~doubt /\ final # None => manifest # None /\ Tells /\ Reenters

\* Channels that this job stacked, or separated from what it stacked.
Fresh(c) ==
  /\ DOMAIN c \subseteq {KeyOf(f) : f \in got} \cup (IF splits THEN Separated ELSE {})
  /\ \A k \in DOMAIN c : c[k].stamp.knob = given.stack

\* OIII stands in for a B that only an earlier job could stack: channels that are
\* not registered are composited by name, and so from the earlier job's master_B.
StandsIn == asBlue /\ "OIII" \in got /\ "B" \notin got /\ master["B"] # None

\* Whatever happened before, a rerun that ends well shows the edit it was asked
\* for in every stage that it remade, from the channels it stacked itself and
\* those it separated from them, unless OIII stands in for an earlier B.
RerunShows ==
  pc = "record" /\ kind = "rerun" =>
    /\ final.look = given.look
    /\ tier >= B => final.prep = given.prep /\ final.screen = given.screen /\ ~final.torn
    /\ tier = C => StandsIn \/ Fresh(final.shown)

=============================================================================
