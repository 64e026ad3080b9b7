----------------------------- MODULE RunDirProofs -----------------------------
(***************************************************************************)
(* For any filters, jobs, passes and faults: types, that a rerun that ends *)
(* well shows the edit it was asked for, and that the checkpoint tells     *)
(* what the directory holds.                                               *)
(*                                                                         *)
(* The second one needs what a rerun has in hand at each of its steps: it  *)
(* never changes its preset, what it stacked carries its knob, the         *)
(* channels it composites are those, and the linear prep in memory is its  *)
(* own one unless it re-enters at the composite.  The third one says of a  *)
(* job in no doubt that the channels in its hand are those that the next   *)
(* re-entry would find on disk, but for the edge trim, with the mark of    *)
(* its preset, and that the prep and the image are made of them (Trust):   *)
(* so one directory in no doubt leads to another, and a re-stack to one    *)
(* from any.                                                               *)
(***************************************************************************)
EXTENDS RunDir, TLAPS

\* A re-entry has a directory to re-enter, and a composite has a prep.
Entered ==
  /\ kind \in {"rerun", "refine"} => record # None
  /\ pc = "composite" => lin \in LinearPrep

\* Only the star repair changes the preset of a job, and no rerun has one.
Plain ==
  /\ finish # "stars" => work = given
  /\ finish = "stars" => pc \in {"composite", "judge", "record"}
  /\ finish = "agent" => pc \in {"stack", "crop", "edge", "prep"}
  /\ pc = "judge" => finish = "stars"
  /\ kind = "rerun" => /\ finish = "plain"
                       /\ pc \in {"stack", "prep", "base", "composite", "record"}
                       /\ pc = "stack" => tier = C

\* A rerun that stacks composites what it stacked.
Restacked ==
  kind = "rerun" /\ tier = C =>
    /\ \A f \in got : master[f].knob = given.stack
    /\ pc # "stack" => /\ DOMAIN chan \subseteq {KeyOf(f) : f \in got}
                       /\ StandsIn \/ \A k \in DOMAIN chan : chan[k].stamp = None \/ chan[k].stamp.knob = given.stack

\* A rerun that makes the linear prep composites that one.
Remade ==
  /\ kind = "rerun" /\ tier = C /\ pc = "base" => StandsIn \/ Fresh(mix)
  /\ kind = "rerun" /\ pc = "composite" =>
       /\ tier >= B => lin.prep = given.prep /\ lin.screen = given.screen /\ ~lin.torn
       /\ tier = C => StandsIn \/ Fresh(lin.shown)

Inv == TypeOK /\ Entered /\ Plain /\ Restacked /\ Remade /\ RerunShows

USE FilterAssumption, BoundAssumption, NoneAssumption DEF A, B, C

-----------------------------------------------------------------------------
(* The channels and their files.                                           *)

LEMMA PlannedKeys == Planned \subseteq Key /\ Separated \subseteq Key
  BY DEF Planned, Key

\* No two filters composite under one name.
LEMMA KeyInjective ==
  ASSUME TypeOK
  PROVE  /\ \A f \in got : KeyOf(f) \in Key
         /\ \A f, g \in got : KeyOf(f) = KeyOf(g) => f = g
         /\ \A f \in got : KeyOf(f) # f => KeyOf(f) = "B" /\ f = "OIII" /\ asBlue /\ "B" \notin got
<1>1. got \subseteq Key
  BY PlannedKeys DEF TypeOK
<1> QED
  BY <1>1 DEF KeyOf, Key

LEMMA ChannelsIntro == ASSUME NEW K \in SUBSET Key, NEW c \in [K -> Source] PROVE c \in Channels
  BY DEF Channels

LEMMA ChannelsElim == ASSUME NEW c \in Channels PROVE DOMAIN c \subseteq Key /\ c \in [DOMAIN c -> Source]
<1> PICK K \in SUBSET Key : c \in [K -> Source]
  BY DEF Channels
<1> QED
  OBVIOUS

LEMMA EmptyIs == Empty \in Channels
<1>1. Empty \in [{} -> Source]
  BY DEF Empty
<1> QED
  BY <1>1, ChannelsIntro

\* What registration and its absence hand over, by channel.
LEMMA UnalignedIs ==
  ASSUME TypeOK, NEW K \in SUBSET {KeyOf(f) : f \in got}
  PROVE  /\ Unaligned(K) \in Channels
         /\ StandsIn \/ \A f \in got : KeyOf(f) \in K => Unaligned(K)[KeyOf(f)].stamp \in {None, master[f]}
<1>1. K \subseteq Key
  BY KeyInjective
<1>2. Unaligned(K) \in [K -> Source]
  BY <1>1 DEF Unaligned, TypeOK, Source, File
<1>3. Unaligned(K) \in Channels
  BY <1>1, <1>2, ChannelsIntro
<1>4. ASSUME ~StandsIn, NEW f \in got, KeyOf(f) \in K
      PROVE  Unaligned(K)[KeyOf(f)].stamp \in {None, master[f]}
  <2>1. Unaligned(K)[KeyOf(f)].stamp = master[KeyOf(f)]
    BY <1>4 DEF Unaligned
  <2>2. CASE KeyOf(f) = f
    BY <2>1, <2>2
  <2>3. CASE KeyOf(f) # f
    <3>1. KeyOf(f) = "B" /\ f = "OIII" /\ asBlue /\ "B" \notin got
      BY <2>3, KeyInjective
    <3> QED
      BY <1>4, <2>1, <3>1 DEF StandsIn
  <2> QED
    BY <2>2, <2>3
<1> QED
  BY <1>3, <1>4

LEMMA AlignedIs ==
  ASSUME TypeOK, NEW K \in SUBSET {KeyOf(f) : f \in got}
  PROVE  /\ Aligned(K) \in Channels
         /\ \A f \in got : KeyOf(f) \in K =>
              Aligned(K)[KeyOf(f)] = [from |-> "aligned", trim |-> FALSE, stamp |-> master[f]]
<1>1. K \subseteq Key
  BY KeyInjective
<1>3. ASSUME NEW f \in got PROVE (CHOOSE g \in got : KeyOf(g) = KeyOf(f)) = f
  <2> DEFINE h == CHOOSE g \in got : KeyOf(g) = KeyOf(f)
  <2>3. h \in got /\ KeyOf(h) = KeyOf(f)
    OBVIOUS
  <2> QED
    BY <2>3, KeyInjective
<1>4. ASSUME NEW f \in got, KeyOf(f) \in K
      PROVE  Aligned(K)[KeyOf(f)] = [from |-> "aligned", trim |-> FALSE, stamp |-> master[f]]
  BY <1>3, <1>4 DEF Aligned
<1>5. \A k \in K : Aligned(K)[k] \in Source
  <2> SUFFICES ASSUME NEW k \in K PROVE Aligned(K)[k] \in Source
    OBVIOUS
  <2>1. PICK f \in got : KeyOf(f) = k
    OBVIOUS
  <2>2. master[f] \in File
    BY PlannedKeys DEF TypeOK
  <2>3. Aligned(K)[k] = [from |-> "aligned", trim |-> FALSE, stamp |-> master[f]]
    BY <1>4, <2>1
  <2> QED
    BY <2>2, <2>3 DEF Source
<1>6. Aligned(K) \in [K -> Source]
  <2>1. Aligned(K) = [k \in K |-> Aligned(K)[k]]
    BY DEF Aligned
  <2> QED
    BY <1>5, <2>1
<1> QED
  BY <1>1, <1>4, <1>6, ChannelsIntro

LEMMA FileIs == ASSUME TypeOK, NEW f \in Key PROVE FileOf(f) \in Source
<1>1. combined[f] \in File /\ aligned[f] \in File /\ master[f] \in File
  BY DEF TypeOK
<1>2. f \in Separated => syn[f] \in SynFile \cup {None}
  BY DEF TypeOK
<1>3. SynFile \subseteq Source
  BY DEF SynFile, Source
<1> QED
  BY <1>1, <1>2, <1>3 DEF FileOf, Source

LEMMA FromDiskIs == ASSUME TypeOK, record \subseteq Key PROVE FromDisk \in Channels
<1>1. record \subseteq Key
  OBVIOUS
<1> DEFINE K == {f \in record : FileOf(f).stamp # None}
<1>2. K \subseteq Key
  BY <1>1
<1>3. ASSUME NEW f \in K PROVE FileOf(f) \in Source
  BY <1>2, FileIs
<1>4. FromDisk \in [K -> Source]
  BY <1>3 DEF FromDisk
<1> QED
  BY <1>2, <1>4, ChannelsIntro

\* What is separated from a colour master carries its stamp.
LEMMA SplitIs ==
  ASSUME NEW c \in Channels, Splits(c)
  PROVE  /\ SplitOf(c) \in SynFile /\ SplitOf(c) \in Source
         /\ SplitOf(c).stamp = c["RGB"].stamp
<1>1. c["RGB"] \in Source
  BY ChannelsElim DEF Splits
<1> QED
  BY <1>1 DEF SplitOf, SynFile, Source

LEMMA ShownIs == ASSUME NEW c \in Channels PROVE Shown(c) \in Channels
<1>1. DOMAIN c \subseteq Key /\ c \in [DOMAIN c -> Source]
  BY ChannelsElim
<1> DEFINE K == DOMAIN c \cup (IF Splits(c) THEN Separated ELSE {})
<1>2. K \subseteq Key
  BY <1>1, PlannedKeys
<1>3. Shown(c) \in [K -> Source]
  <2>1. \A k \in K : (IF Splits(c) /\ k \in Separated THEN SplitOf(c) ELSE c[k]) \in Source
    BY <1>1, SplitIs
  <2> QED
    BY <2>1 DEF Shown
<1> QED
  BY <1>2, <1>3, ChannelsIntro

LEMMA LinearIs == ASSUME TypeOK, NEW t \in BOOLEAN PROVE Linear(t) \in LinearPrep
  BY DEF TypeOK, Linear, LinearPrep, Preset

LEMMA ImageIs == ASSUME TypeOK, lin \in LinearPrep PROVE Image \in Picture
  BY DEF TypeOK, Image, LinearPrep, Picture, Preset, Val

-----------------------------------------------------------------------------
(* Parts of steps.                                                         *)

\* Another pass of the star repair has a preset, over a prep.
LEMMA PassIs ==
  ASSUME TypeOK, NEW base, StarPass(base)
  PROVE  work' \in Preset /\ passes' \in 0 .. MaxPasses /\ pc' = "composite" /\ base # None
<1>1. PICK v \in Val : work' = [work EXCEPT !.look = v]
  BY DEF StarPass
<1>2. work' \in Preset
  BY <1>1 DEF TypeOK, Preset
<1> QED
  BY <1>2 DEF StarPass, TypeOK

\* A job that is over leaves nothing in hand.
LEMMA RestIs ==
  ASSUME Rest
  PROVE  /\ kind' = "none" /\ pc' = "idle" /\ given' \in Preset /\ work' = given'
         /\ tier' \in {A, B, C} /\ finish' = "plain" /\ todo' = {} /\ got' = {}
         /\ {chan', mix'} \subseteq Channels /\ named' = {} /\ lin' = None /\ cand' = None /\ best' = None
         /\ passes' \in 0 .. MaxPasses /\ why' \in BOOLEAN
<1>2. Given0 \in Preset
  BY DEF Given0, Preset, Val
<1>3. why' \in BOOLEAN
  BY DEF Rest
<1>4. passes' \in 0 .. MaxPasses
  BY DEF Rest
<1> QED
  BY <1>2, <1>3, <1>4, EmptyIs DEF Rest

\* Only a rerun has to show anything.
LEMMA NoRerun == kind' # "rerun" => Restacked' /\ Remade' /\ RerunShows'
  BY DEF Restacked, Remade, RerunShows

\* A job that is over has nothing to show.
LEMMA RestInv ==
  ASSUME Rest, TypeOK'
  PROVE  Inv'
<1>1. Entered' /\ Plain' /\ kind' # "rerun"
  BY RestIs DEF Entered, Plain
<1> QED
  BY <1>1, NoRerun DEF Inv

LEMMA InitInv == Init => Inv
<1> SUFFICES ASSUME Init PROVE Inv
  OBVIOUS
<1>1. Given0 \in Preset
  BY DEF Given0, Preset, Val
<1>2. TypeOK
  <2>1. {excludes, asBlue, splits, why, doubt} \subseteq BOOLEAN
    BY DEF Init
  <2>2. passes \in 0 .. MaxPasses /\ jobs \in 0 .. MaxJobs /\ faults \in 0 .. MaxFaults
    BY DEF Init
  <2>3. master \in [Key -> File] /\ aligned \in [Key -> File] /\ combined \in [Key -> File]
    BY DEF Init, File
  <2>4. syn \in [Separated -> SynFile \cup {None}]
    BY DEF Init
  <2> QED
    BY <1>1, <2>1, <2>2, <2>3, <2>4, EmptyIs, PlannedKeys DEF Init, TypeOK
<1>3. Entered /\ Plain /\ Restacked /\ Remade /\ RerunShows
  BY DEF Init, Entered, Plain, Restacked, Remade, RerunShows
<1> QED
  BY <1>2, <1>3 DEF Inv

\* What a job stacked, and what is fresh, do not depend on its other steps.
LEMMA SameStack ==
  ASSUME UNCHANGED <<master, got, given, options>>
  PROVE  /\ {KeyOf(f) : f \in got}' = {KeyOf(f) : f \in got} /\ StandsIn' = StandsIn
         /\ \A c : Fresh(c)' = Fresh(c)
<1>1. {KeyOf(f) : f \in got}' = {KeyOf(f) : f \in got}
  BY DEF KeyOf, options
<1> QED
  BY <1>1 DEF StandsIn, Fresh, options

-----------------------------------------------------------------------------
(* One lemma per action.                                                   *)

LEMMA StackInv == ASSUME Inv, NEW f \in Planned, Stack(f) PROVE Inv'
<1> USE DEF Inv
<1>1. TypeOK'
  <2>0. Planned' = Planned
    BY DEF Stack, Planned, options
  <2>1. todo' \subseteq Planned /\ got' \subseteq Planned
    BY DEF Stack, TypeOK
  <2>3. faults' \in 0 .. MaxFaults
    BY DEF Stack, TypeOK, Fault, NoFault
  <2>4. [knob |-> work.stack, all |-> excludes /\ kind = "rerun"] \in File
    <3>1. (excludes /\ kind = "rerun") \in BOOLEAN
      OBVIOUS
    <3> QED
      BY <3>1 DEF TypeOK, File, Stamp, Preset
  <2>5. master' \in [Key -> File]
    BY <2>4, PlannedKeys DEF Stack, TypeOK
  <2>2. why' \in BOOLEAN
    BY DEF Stack, TypeOK, Untold
  <2> QED
    BY <2>0, <2>1, <2>2, <2>3, <2>5 DEF Stack, TypeOK, plan, loop, options
<1>2. Entered' /\ Plain'
  BY DEF Stack, Entered, Plain, plan
<1>3. Restacked'
  BY PlannedKeys DEF Stack, Restacked, Plain, plan, TypeOK
<1>4. Remade' /\ RerunShows'
  BY DEF Stack, Remade, RerunShows, plan
<1> QED
  BY <1>1, <1>2, <1>3, <1>4

LEMMA AlignInv == ASSUME Inv, Align PROVE Inv'
<1> USE DEF Inv
<1> DEFINE K == {KeyOf(f) : f \in got}
           D == UNCHANGED <<master, combined, syn, prep, final, manifest, record, plan, work, finish, stacks, mix,
                            named, lin, loop, jobs, options, doubt>>
<1>1. PICK S \in SUBSET K : chan' = Unaligned(S) \/ chan' = Aligned(S)
  BY DEF Align, CompositeOf
<1>2. chan' \in Channels
  BY <1>1, UnalignedIs, AlignedIs
<1>3. DOMAIN chan' \subseteq K
  BY <1>1 DEF Unaligned, Aligned
<1>4. StandsIn \/ \A k \in DOMAIN chan' : \E f \in got : k = KeyOf(f) /\ chan'[k].stamp \in {None, master[f]}
  <2> SUFFICES ASSUME ~StandsIn, NEW k \in DOMAIN chan'
               PROVE  \E f \in got : k = KeyOf(f) /\ chan'[k].stamp \in {None, master[f]}
    OBVIOUS
  <2>1. k \in S
    BY <1>1 DEF Unaligned, Aligned
  <2>2. PICK f \in got : k = KeyOf(f)
    BY <2>1
  <2>3. CASE chan' = Unaligned(S)
    <3>1. Unaligned(S)[KeyOf(f)].stamp \in {None, master[f]}
      BY <2>1, <2>2, UnalignedIs
    <3> QED
      BY <2>2, <2>3, <3>1
  <2>4. CASE chan' = Aligned(S)
    <3>1. Aligned(S)[KeyOf(f)] = [from |-> "aligned", trim |-> FALSE, stamp |-> master[f]]
      BY <2>1, <2>2, AlignedIs
    <3>2. Aligned(S)[KeyOf(f)].stamp = master[f]
      BY <3>1
    <3> QED
      BY <2>2, <2>4, <3>2
  <2> QED
    BY <1>1, <2>3, <2>4
<1>5. aligned' \in [Key -> File]
  <2>1. ASSUME NEW T \in SUBSET K, Register(T) PROVE aligned' \in [Key -> File]
    <3>1. Aligned(T) \in Channels /\ DOMAIN Aligned(T) = T
      BY <2>1, AlignedIs DEF Aligned
    <3>2. \A k \in T : Aligned(T)[k].stamp \in File
      BY <3>1, ChannelsElim DEF Source
    <3> QED
      BY <2>1, <3>2 DEF Register, TypeOK
  <2>2. UNCHANGED aligned \/ \E T \in SUBSET K : Register(T)
    BY DEF Align
  <2> QED
    BY <2>1, <2>2 DEF TypeOK
<1>6. why' \in BOOLEAN /\ faults' \in 0 .. MaxFaults
  <2>1. why' \in BOOLEAN
    BY DEF Align, Untold, TypeOK
  <2>2. faults' \in 0 .. MaxFaults
    BY DEF Align, Fault, NoFault, TypeOK
  <2> QED
    BY <2>1, <2>2
<1>7. pc = "stack" /\ pc' \in {"crop", "prep"} /\ (kind = "rerun" => pc' = "prep")
  BY DEF Align
<1>8. D
  BY DEF Align
<1>9. TypeOK'
  <2>1. Planned' = Planned
    BY <1>8 DEF Planned, options
  <2> QED
    BY <1>2, <1>5, <1>6, <1>7, <1>8, <2>1 DEF TypeOK, plan, stacks, loop, options
<1>10. Entered' /\ Plain' /\ Remade' /\ RerunShows'
  BY <1>7, <1>8 DEF Entered, Plain, Remade, RerunShows, plan
<1>11. Restacked'
  <2> SUFFICES ASSUME kind = "rerun", tier = C PROVE Restacked'
    BY <1>8 DEF Restacked, plan
  <2>1. \A f \in got : master[f].knob = given.stack
    BY DEF Restacked
  <2>2. K' = K /\ StandsIn' = StandsIn
    BY <1>8, SameStack DEF stacks, plan
  <2>3. DOMAIN chan' \subseteq K'
    BY <1>3, <2>2
  <2>4. StandsIn \/ \A k \in DOMAIN chan' : chan'[k].stamp = None \/ chan'[k].stamp.knob = given.stack
    BY <1>4, <2>1
  <2> QED
    BY <1>8, <2>1, <2>2, <2>3, <2>4 DEF Restacked, plan, stacks
<1> QED
  BY <1>9, <1>10, <1>11

LEMMA CropInv == ASSUME Inv, Crop PROVE Inv'
<1> USE DEF Inv
<1>1. \A k \in DOMAIN chan : k \in Key /\ chan[k] \in Source
  BY ChannelsElim DEF TypeOK
<1>2. combined' \in [Key -> File]
  BY <1>1 DEF Crop, TypeOK, File, Source
<1>3. chan' \in Channels
  <2>1. [k \in DOMAIN chan |-> [chan[k] EXCEPT !.from = "combine"]] \in Channels
    <3>1. \A k \in DOMAIN chan : [chan[k] EXCEPT !.from = "combine"] \in Source
      BY <1>1 DEF Source
    <3>2. [k \in DOMAIN chan |-> [chan[k] EXCEPT !.from = "combine"]] \in [DOMAIN chan -> Source]
      BY <3>1
    <3> QED
      BY <1>1, <3>2, ChannelsIntro
  <2> QED
    BY <2>1 DEF Crop, TypeOK
<1>4. why' \in BOOLEAN /\ faults' \in 0 .. MaxFaults
  <2>1. why' \in BOOLEAN
    BY DEF Crop, Untold, TypeOK
  <2>2. faults' \in 0 .. MaxFaults
    BY DEF Crop, Fault, NoFault, TypeOK
  <2> QED
    BY <2>1, <2>2
<1>5. kind' # "rerun"
  BY DEF Crop, Plain, plan
<1>6. TypeOK'
  <2>1. Planned' = Planned
    BY DEF Crop, Planned, options
  <2> QED
    BY <1>2, <1>3, <1>4, <2>1 DEF Crop, TypeOK, plan, stacks, loop, options
<1>7. Entered' /\ Plain'
  BY <1>5 DEF Crop, Entered, Plain, plan
<1> QED
  BY <1>5, <1>6, <1>7, NoRerun

LEMMA EdgeCropInv == ASSUME Inv, EdgeCrop PROVE Inv'
<1> USE DEF Inv
<1>1. \A k \in DOMAIN chan : k \in Key /\ chan[k] \in Source
  BY ChannelsElim DEF TypeOK
<1>3. chan' \in Channels
  <2>1. [k \in DOMAIN chan |-> [chan[k] EXCEPT !.trim = TRUE]] \in Channels
    <3>1. \A k \in DOMAIN chan : [chan[k] EXCEPT !.trim = TRUE] \in Source
      BY <1>1 DEF Source
    <3>2. [k \in DOMAIN chan |-> [chan[k] EXCEPT !.trim = TRUE]] \in [DOMAIN chan -> Source]
      BY <3>1
    <3> QED
      BY <1>1, <3>2, ChannelsIntro
  <2> QED
    BY <2>1 DEF EdgeCrop, TypeOK
<1>5. kind' # "rerun"
  BY DEF EdgeCrop, Plain, plan
<1>6. TypeOK'
  <2>1. Planned' = Planned
    BY DEF EdgeCrop, Planned, counts, options
  <2> QED
    BY <1>3, <2>1 DEF EdgeCrop, TypeOK, disk, masters, plan, stacks, loop, counts, options
<1>7. Entered' /\ Plain'
  BY <1>5 DEF EdgeCrop, Entered, Plain, disk, plan
<1> QED
  BY <1>5, <1>6, <1>7, NoRerun

LEMMA SeparateInv == ASSUME Inv, Separate PROVE Inv'
<1> USE DEF Inv
<1>0. /\ pc = "prep" /\ pc' = "base" /\ finish = "plain" /\ Readable
      /\ UNCHANGED <<masters, prep, final, manifest, record, plan, work, finish, stacks, chan, lin, loop, jobs,
                     options, doubt>>
      /\ mix' \in {Shown(chan), chan}
  BY DEF Separate
<1>1. chan \in Channels /\ mix' \in Channels
  BY <1>0, ShownIs DEF TypeOK
<1>2. syn' \in [Separated -> SynFile \cup {None}]
  <2>1. Splits(chan) => SplitOf(chan) \in SynFile
    BY <1>1, SplitIs
  <2>2. "Ha" \in Separated
    BY DEF Separated
  <2> QED
    BY <2>1, <2>2 DEF Separate, TypeOK
<1>3. named' \subseteq Key
  <2>1. DOMAIN mix' \subseteq Key
    BY <1>1, ChannelsElim
  <2> QED
    BY <2>1 DEF Separate, TypeOK
<1>4. why' \in BOOLEAN /\ faults' \in 0 .. MaxFaults
  <2>1. why' \in BOOLEAN
    BY DEF Separate, Untold, TypeOK
  <2>2. NoFault \/ Fault
    BY DEF Separate
  <2>3. faults' \in 0 .. MaxFaults
    BY <2>2 DEF Fault, NoFault, TypeOK
  <2> QED
    BY <2>1, <2>3
<1>5. TypeOK'
  <2>1. Planned' = Planned
    BY <1>0 DEF Planned, options
  <2> QED
    BY <1>0, <1>1, <1>2, <1>3, <1>4, <2>1 DEF TypeOK, masters, plan, stacks, loop, options
<1>6. Entered' /\ Plain' /\ RerunShows'
  BY <1>0 DEF Entered, Plain, RerunShows, plan
<1>7. {KeyOf(f) : f \in got}' = {KeyOf(f) : f \in got} /\ StandsIn' = StandsIn /\ \A c : Fresh(c)' = Fresh(c)
  BY <1>0, SameStack DEF masters, stacks, plan
<1>8. Restacked'
  BY <1>0, <1>7 DEF Restacked, masters, plan, stacks
<1>9. ASSUME kind = "rerun", tier = C, ~StandsIn PROVE Fresh(mix')
  <2>1. /\ DOMAIN chan \subseteq {KeyOf(f) : f \in got}
        /\ \A k \in DOMAIN chan : chan[k].stamp.knob = given.stack
    BY <1>0, <1>9 DEF Restacked, Readable
  <2>2. DOMAIN mix' \subseteq DOMAIN chan \cup (IF splits THEN Separated ELSE {})
    BY <1>0 DEF Shown, Splits
  <2>3. ASSUME NEW k \in DOMAIN mix' PROVE mix'[k].stamp.knob = given.stack
    <3>1. CASE mix' = chan
      BY <2>1, <2>3, <3>1
    <3>2. CASE mix' = Shown(chan) /\ Splits(chan) /\ k \in Separated
      <4>1. mix'[k] = SplitOf(chan)
        BY <2>3, <3>2 DEF Shown
      <4> QED
        BY <1>1, <2>1, <3>2, <4>1, SplitIs DEF Splits
    <3>3. CASE mix' = Shown(chan) /\ ~(Splits(chan) /\ k \in Separated)
      <4>1. k \in DOMAIN chan /\ mix'[k] = chan[k]
        BY <2>3, <3>3 DEF Shown
      <4> QED
        BY <2>1, <4>1
    <3> QED
      BY <1>0, <3>1, <3>2, <3>3
  <2> QED
    BY <2>1, <2>2, <2>3 DEF Fresh
<1>10. Remade'
  BY <1>0, <1>7, <1>9 DEF Remade, plan
<1> QED
  BY <1>5, <1>6, <1>8, <1>10

LEMMA MakePrepInv == ASSUME Inv, MakePrep PROVE Inv'
<1> USE DEF Inv
<1>0. /\ pc = "base" /\ pc' = "composite" /\ lin' = Linear(FALSE) /\ mix' = Empty
      /\ UNCHANGED <<masters, syn, final, manifest, record, plan, work, finish, stacks, chan, named, loop, jobs,
                     options, doubt>>
  BY DEF MakePrep
<1>1. lin' \in LinearPrep /\ prep' \in LinearPrep \cup {None}
  BY LinearIs DEF MakePrep, TypeOK
<1>2. why' \in BOOLEAN /\ faults' \in 0 .. MaxFaults
  <2>1. why' \in BOOLEAN
    BY DEF MakePrep, Untold, TypeOK
  <2>2. faults' \in 0 .. MaxFaults
    <3>1. NoFault \/ Fault
      BY DEF MakePrep
    <3> QED
      BY <3>1 DEF Fault, NoFault, TypeOK
  <2> QED
    BY <2>1, <2>2
<1>3. TypeOK'
  <2>1. Planned' = Planned
    BY <1>0 DEF Planned, options
  <2> QED
    BY <1>0, <1>1, <1>2, <2>1, EmptyIs DEF TypeOK, masters, plan, stacks, loop, options
<1>4. Entered' /\ Plain' /\ RerunShows'
  BY <1>0, <1>1 DEF Entered, Plain, RerunShows, plan
<1>5. {KeyOf(f) : f \in got}' = {KeyOf(f) : f \in got} /\ StandsIn' = StandsIn /\ \A c : Fresh(c)' = Fresh(c)
  BY <1>0, SameStack DEF masters, stacks, plan
<1>6. Restacked'
  BY <1>0, <1>5 DEF Restacked, masters, plan, stacks
<1>7. lin'.shown = mix /\ lin'.prep = work.prep /\ lin'.screen = work.screen /\ lin'.torn = FALSE
  BY <1>0 DEF Linear
<1>8. Remade'
  BY <1>0, <1>5, <1>7 DEF Remade, Plain, plan
<1> QED
  BY <1>3, <1>4, <1>6, <1>8

LEMMA CompositeInv == ASSUME Inv, Composite PROVE Inv'
<1> USE DEF Inv
<1>0. /\ pc = "composite" /\ (kind = "rerun" => pc' = "record") /\ pc' \in {"record", "stars", "judge"}
      /\ IF finish = "plain" THEN pc' # "judge" ELSE pc' = "judge"
      /\ UNCHANGED <<masters, syn, prep, manifest, record, plan, work, finish, stacks, chan, mix, named, lin,
                     best, passes, counts, doubt>>
  BY DEF Composite, Plain
<1>1. Image \in Picture
  BY <1>0, ImageIs DEF Entered
<1>2. TypeOK'
  <2>1. why' \in BOOLEAN
    BY DEF Composite, Untold, TypeOK
  <2>2. Planned' = Planned
    BY <1>0 DEF Planned, counts, options
  <2>3. {final', cand'} \subseteq Picture \cup {None}
    BY <1>1 DEF Composite, TypeOK
  <2> QED
    BY <1>0, <2>1, <2>2, <2>3 DEF TypeOK, masters, plan, stacks, counts, options
<1>3. Entered' /\ Plain'
  <2>1. Entered'
    BY <1>0 DEF Entered, plan
  <2>2. finish # "plain" => finish = "stars"
    BY <1>0 DEF Plain, Composite, TypeOK
  <2>3. Plain'
    BY <1>0, <2>2 DEF Plain, plan
  <2> QED
    BY <2>1, <2>3
<1>4. {KeyOf(f) : f \in got}' = {KeyOf(f) : f \in got} /\ StandsIn' = StandsIn /\ \A c : Fresh(c)' = Fresh(c)
  BY <1>0, SameStack DEF masters, stacks, plan, counts
<1>5. Restacked' /\ Remade'
  BY <1>0, <1>4 DEF Restacked, Remade, masters, plan, stacks
<1>6. RerunShows'
  <2> SUFFICES ASSUME kind = "rerun" PROVE RerunShows'
    BY <1>0 DEF RerunShows, plan
  <2>1. finish = "plain" /\ work = given /\ final' = Image
    BY DEF Plain, Composite
  <2>2. Image.look = given.look /\ Image.shown = lin.shown /\ Image.prep = lin.prep
        /\ Image.torn = lin.torn /\ Image.screen = lin.screen
    BY <2>1 DEF Image
  <2>3. /\ final'.look = given.look
        /\ tier >= B => final'.prep = given.prep /\ final'.screen = given.screen /\ ~final'.torn
        /\ tier = C => StandsIn \/ Fresh(final'.shown)
    BY <1>0, <2>1, <2>2 DEF Remade
  <2> QED
    BY <1>0, <1>4, <2>3 DEF RerunShows, plan
<1> QED
  BY <1>2, <1>3, <1>5, <1>6

LEMMA CheckStarsInv == ASSUME Inv, CheckStars PROVE Inv'
<1> USE DEF Inv
<1>1. /\ kind # "rerun" /\ kind' = kind /\ pc = "stars" /\ finish # "stars"
      /\ UNCHANGED <<disk, plan, stacks, chan, mix, named, cand, best, counts, why, doubt>>
  BY DEF CheckStars, Plain, plan
<1>2. Planned' = Planned
  BY <1>1 DEF Planned, counts, options
<1>3. CASE pc' = "record" /\ UNCHANGED <<work, finish, lin, passes>>
  <2>1. TypeOK'
    BY <1>1, <1>2, <1>3 DEF TypeOK, disk, masters, plan, stacks, counts, options
  <2>2. Entered' /\ Plain'
    BY <1>1, <1>3 DEF Entered, Plain, disk, plan
  <2> QED
    BY <1>1, <2>1, <2>2, NoRerun
<1>4. CASE finish' = "stars" /\ lin' = prep /\ StarPass(prep)
  <2>1. work' \in Preset /\ passes' \in 0 .. MaxPasses /\ pc' = "composite" /\ prep # None
    BY <1>4, PassIs
  <2>2. TypeOK'
    BY <1>1, <1>2, <1>4, <2>1 DEF TypeOK, disk, masters, plan, stacks, counts, options
  <2>3. Entered' /\ Plain'
    BY <1>1, <1>4, <2>1 DEF Entered, Plain, TypeOK, disk, plan
  <2> QED
    BY <1>1, <2>2, <2>3, NoRerun
<1> QED
  BY <1>3, <1>4 DEF CheckStars

LEMMA JudgeStarsInv == ASSUME Inv, JudgeStars PROVE Inv'
<1> USE DEF Inv
<1>1. /\ kind # "rerun" /\ kind' = kind /\ pc = "judge" /\ finish = "stars"
      /\ UNCHANGED <<masters, syn, prep, manifest, record, plan, finish, stacks, chan, mix, named, lin, counts, doubt>>
  BY DEF JudgeStars, Plain, plan
<1>2. cand' \in Picture \cup {None} /\ best' \in Picture \cup {None}
  BY DEF JudgeStars, TypeOK
<1>3. Planned' = Planned
  BY <1>1 DEF Planned, counts, options
<1>4. CASE (Promote(best) \/ Promote(cand)) /\ UNCHANGED <<work, passes>>
  <2>1. why' \in BOOLEAN
    BY <1>4 DEF TypeOK, Promote, Untold
  <2>2. final' \in Picture \cup {None} /\ pc' = "record"
    BY <1>4 DEF TypeOK, Promote
  <2>3. TypeOK'
    BY <1>1, <1>2, <1>3, <1>4, <2>1, <2>2 DEF TypeOK, masters, plan, stacks, counts, options
  <2>4. Entered' /\ Plain'
    BY <1>1, <1>4, <2>2 DEF Entered, Plain, plan
  <2> QED
    BY <1>1, <2>3, <2>4, NoRerun
<1>5. CASE StarPass(lin) /\ UNCHANGED <<final, why>>
  <2>1. work' \in Preset /\ passes' \in 0 .. MaxPasses /\ pc' = "composite" /\ lin # None
    BY <1>5, PassIs
  <2>2. TypeOK'
    BY <1>1, <1>2, <1>3, <1>5, <2>1 DEF TypeOK, masters, plan, stacks, counts, options
  <2>3. Entered' /\ Plain'
    BY <1>1, <2>1 DEF Entered, Plain, TypeOK, plan
  <2> QED
    BY <1>1, <2>2, <2>3, NoRerun
<1> QED
  BY <1>4, <1>5 DEF JudgeStars

LEMMA RecordInv == ASSUME Inv, Record PROVE Inv'
<1> USE DEF Inv
<1>1. Rest /\ UNCHANGED <<masters, syn, prep, final, jobs, options>>
  BY DEF Record
<1>3. record' \in (SUBSET Key) \cup {None}
  BY DEF Record, Kept, TypeOK
<1>4. manifest' \in Preset \cup {None}
  BY DEF Record, Checkpoint, TypeOK
<1>5. doubt' \in BOOLEAN
  BY DEF Record
<1>6. faults' \in 0 .. MaxFaults
  <2>1. NoFault \/ Fault
    BY DEF Record
  <2> QED
    BY <2>1 DEF Fault, NoFault, TypeOK
<1>7. TypeOK'
  BY <1>1, <1>3, <1>4, <1>5, <1>6, RestIs DEF TypeOK, masters, options
<1> QED
  BY <1>1, <1>7, RestInv

LEMMA FinishFailsInv == ASSUME Inv, FinishFails PROVE Inv'
<1> USE DEF Inv
<1>1. /\ kind # "rerun" /\ kind' = kind /\ finish = "plain" /\ pc' = "record"
      /\ UNCHANGED <<masters, syn, prep, manifest, record, plan, work, finish, stacks, chan, mix, named, lin, loop,
                     jobs, options, doubt>>
  BY DEF FinishFails, plan
<1>2. faults' \in 0 .. MaxFaults
  <2>1. NoFault \/ Fault
    BY DEF FinishFails, StepFails
  <2> QED
    BY <2>1 DEF Fault, NoFault, TypeOK
<1>3. [shown : {chan}, prep : {work.prep, Ignored}, torn : {FALSE}, look : {work.look, Ignored},
       screen : {Ignored}] \subseteq Picture
  BY DEF TypeOK, Picture, Preset, Val
<1>4. final' \in Picture \cup {None}
  BY <1>3 DEF FinishFails
<1>5. why' \in BOOLEAN
  BY DEF FinishFails, Untold, TypeOK
<1>6. TypeOK'
  <2>1. Planned' = Planned
    BY <1>1 DEF Planned, options
  <2> QED
    BY <1>1, <1>2, <1>4, <1>5, <2>1 DEF TypeOK, masters, plan, stacks, loop, options
<1>7. Entered' /\ Plain'
  BY <1>1 DEF Entered, Plain, plan
<1> QED
  BY <1>1, <1>6, <1>7, NoRerun

LEMMA PassFailsInv == ASSUME Inv, PassFails PROVE Inv'
<1> USE DEF Inv
<1>1. /\ kind # "rerun" /\ kind' = kind /\ finish = "stars" /\ pc' = "record" /\ Fault
      /\ UNCHANGED <<masters, syn, prep, manifest, record, plan, work, finish, stacks, chan, mix, named, lin, loop,
                     jobs, options, doubt>>
  BY DEF PassFails, Promote, Plain, plan
<1>2. faults' \in 0 .. MaxFaults
  BY <1>1 DEF Fault, TypeOK
<1>3. final' \in Picture \cup {None} /\ why' \in BOOLEAN
  <2>1. final' \in Picture \cup {None}
    BY DEF PassFails, Promote, TypeOK
  <2>2. why' \in BOOLEAN
    BY DEF PassFails, Promote, Untold, TypeOK
  <2> QED
    BY <2>1, <2>2
<1>4. TypeOK'
  <2>1. Planned' = Planned
    BY <1>1 DEF Planned, options
  <2> QED
    BY <1>1, <1>2, <1>3, <2>1 DEF TypeOK, masters, plan, stacks, loop, options
<1>5. Entered' /\ Plain'
  BY <1>1 DEF Entered, Plain, plan
<1> QED
  BY <1>1, <1>4, <1>5, NoRerun

LEMMA AgentGivesWayInv == ASSUME Inv, AgentGivesWay PROVE Inv'
<1> USE DEF Inv
<1>1. /\ kind # "rerun" /\ kind' = kind /\ pc' = pc /\ pc = "prep" /\ finish = "agent" /\ finish' = "plain" /\ Fault
      /\ UNCHANGED <<disk, plan, pc, work, stacks, chan, mix, named, lin, loop, jobs, options, why, doubt>>
  BY DEF AgentGivesWay, Plain, plan
<1>2. TypeOK'
  <2>1. Planned' = Planned
    BY <1>1 DEF Planned, options
  <2>2. faults' \in 0 .. MaxFaults
    BY <1>1 DEF Fault, TypeOK
  <2> QED
    BY <1>1, <2>1, <2>2 DEF TypeOK, disk, masters, plan, stacks, loop, options
<1>3. Entered' /\ Plain'
  BY <1>1 DEF Entered, Plain, disk, plan
<1> QED
  BY <1>1, <1>2, <1>3, NoRerun

LEMMA PanicInv == ASSUME Inv, Panic PROVE Inv'
<1>1. Rest /\ UNCHANGED <<disk, counts>> /\ doubt' \in BOOLEAN
  BY DEF Panic, Inv, TypeOK
<1>2. TypeOK'
  BY <1>1, RestIs DEF Inv, TypeOK, disk, masters, counts, options
<1> QED
  BY <1>1, <1>2, RestInv

LEMMA DieInv == ASSUME Inv, Die PROVE Inv'
<1>1. Rest /\ UNCHANGED <<disk, jobs, options>> /\ doubt' = TRUE
  BY DEF Die
<1>2. faults' \in 0 .. MaxFaults
  <2>1. NoFault \/ Fault
    BY DEF Die
  <2> QED
    BY <2>1 DEF Fault, NoFault, Inv, TypeOK
<1>3. TypeOK'
  BY <1>1, <1>2, RestIs DEF Inv, TypeOK, disk, masters, options
<1> QED
  BY <1>1, <1>3, RestInv

\* What a job starts with, whichever it is.
LEMMA BeginIs ==
  ASSUME TypeOK, NEW k, NEW p \in Preset, NEW t \in {A, B, C}, NEW f \in {"plain", "agent"},
         Begin(k, p, t, f)
  PROVE  /\ jobs' \in 0 .. MaxJobs /\ record # None /\ named' = record /\ named' \subseteq Key
         /\ kind' = k /\ given' = p /\ work' = p /\ tier' = t /\ finish' = f
         /\ UNCHANGED <<disk, mix, loop, faults, options, why, doubt>>
         /\ Planned' = Planned
<1>1. jobs' \in 0 .. MaxJobs
  BY DEF Begin, TypeOK
<1>2. Planned' = Planned
  BY DEF Begin, Planned, options
<1>3. record # None /\ named' = record /\ named' \subseteq Key
  BY DEF Begin, TypeOK
<1> QED
  BY <1>1, <1>2, <1>3 DEF Begin

LEMMA RerunInv == ASSUME Inv, NEW p \in Preset, NEW stage \in Stage, Rerun(p, stage) PROVE Inv'
<1> USE DEF Inv
<1> DEFINE floor == TierForStage(stage)
           t == IF floor > TierOf(Baseline, p) THEN floor ELSE TierOf(Baseline, p)
<1>1. t \in {A, B, C}
  BY DEF TierForStage, TierOf
<1>2. Begin("rerun", p, t, "plain")
  BY DEF Rerun
<1> HIDE DEF t
<1>3. /\ jobs' \in 0 .. MaxJobs /\ record # None /\ named' \subseteq Key
      /\ kind' = "rerun" /\ given' = p /\ work' = p /\ tier' = t /\ finish' = "plain"
      /\ UNCHANGED <<disk, mix, loop, faults, options, why, doubt>>
      /\ Planned' = Planned
  BY <1>1, <1>2, BeginIs
<1>4. CASE t = C
  <2>1. Restack /\ pc' = "stack" /\ chan' = Empty /\ lin' = None
    BY <1>4 DEF Rerun, t
  <2>3. TypeOK'
    BY <1>1, <1>3, <2>1, EmptyIs DEF TypeOK, Restack, disk, masters, loop, options
  <2>4. Entered' /\ Plain' /\ Remade' /\ RerunShows'
    BY <1>3, <1>4, <2>1 DEF Entered, Plain, Remade, RerunShows, disk
  <2>5. Restacked'
    BY <2>1 DEF Restacked, Restack
  <2> QED
    BY <2>3, <2>4, <2>5
<1>5. CASE t # C
  <2>1. /\ chan' = FromDisk /\ UNCHANGED stacks
        /\ \/ t = A /\ prep # None /\ lin' = prep /\ pc' = "composite"
           \/ lin' = None /\ pc' = "prep"
    BY <1>5 DEF Rerun, t
  <2>2. chan' \in Channels
    BY <1>3, <2>1, FromDiskIs DEF TypeOK
  <2>3. TypeOK'
    BY <1>1, <1>3, <2>1, <2>2 DEF TypeOK, disk, masters, loop, options, stacks
  <2>4. Entered' /\ Plain' /\ RerunShows'
    BY <1>3, <2>1 DEF Entered, Plain, RerunShows, TypeOK, disk
  <2>5. Restacked' /\ Remade'
    BY <1>1, <1>3, <1>5, <2>1 DEF Restacked, Remade
  <2> QED
    BY <2>3, <2>4, <2>5
<1> QED
  BY <1>4, <1>5

LEMMA RefineInv == ASSUME Inv, NEW p \in Preset, NEW agent \in BOOLEAN, Refine(p, agent) PROVE Inv'
<1> USE DEF Inv
<1> DEFINE f == IF agent THEN "agent" ELSE "plain"
<1>1. Begin("refine", p, B, f) /\ f \in {"plain", "agent"}
  BY DEF Refine
<1> HIDE DEF f
<1>2. /\ jobs' \in 0 .. MaxJobs /\ record # None /\ named' \subseteq Key
      /\ kind' = "refine" /\ given' = p /\ work' = p /\ tier' = B /\ finish' = f
      /\ UNCHANGED <<disk, mix, loop, faults, options, why, doubt>>
      /\ Planned' = Planned
  BY <1>1, BeginIs
<1>3. chan' = FromDisk /\ lin' = None /\ pc' = "prep" /\ UNCHANGED stacks
  BY DEF Refine
<1>4. chan' \in Channels
  BY <1>2, <1>3, FromDiskIs DEF TypeOK
<1>5. TypeOK'
  BY <1>1, <1>2, <1>3, <1>4 DEF TypeOK, disk, masters, loop, options, stacks
<1>6. Entered' /\ Plain'
  BY <1>1, <1>2, <1>3 DEF Entered, Plain, disk
<1> QED
  BY <1>2, <1>5, <1>6, NoRerun

LEMMA StutterInv == ASSUME Inv, UNCHANGED vars PROVE Inv'
<1>1. {KeyOf(f) : f \in got}' = {KeyOf(f) : f \in got} /\ StandsIn' = StandsIn /\ \A c : Fresh(c)' = Fresh(c)
  BY SameStack DEF vars, disk, masters, stacks, counts, plan
<1>2. TypeOK'
  <2>1. Planned' = Planned
    BY DEF vars, counts, options, Planned
  <2> QED
    BY <2>1 DEF Inv, TypeOK, vars, disk, masters, stacks, loop, counts, options
<1>3. Entered' /\ Plain'
  BY DEF Inv, Entered, Plain, vars, disk
<1>4. Restacked' /\ Remade' /\ RerunShows'
  BY <1>1 DEF Inv, Restacked, Remade, RerunShows, vars, disk, masters, stacks
<1> QED
  BY <1>2, <1>3, <1>4 DEF Inv

LEMMA StepInv == Inv /\ [Next]_vars => Inv'
<1> SUFFICES ASSUME Inv, [Next]_vars PROVE Inv'
  OBVIOUS
<1>1. ASSUME NEW f \in Planned, Stack(f) PROVE Inv'
  BY <1>1, StackInv
<1>2. ASSUME NEW p \in Preset, NEW stage \in Stage, Rerun(p, stage) PROVE Inv'
  BY <1>2, RerunInv
<1>3. ASSUME NEW p \in Preset, NEW agent \in BOOLEAN, Refine(p, agent) PROVE Inv'
  BY <1>3, RefineInv
<1> QED
  BY <1>1, <1>2, <1>3, AlignInv, CropInv, EdgeCropInv, SeparateInv, MakePrepInv, CompositeInv, CheckStarsInv,
     JudgeStarsInv, RecordInv, FinishFailsInv, PassFailsInv, AgentGivesWayInv, PanicInv, DieInv, StutterInv DEF Next

-----------------------------------------------------------------------------
(* The checkpoint.                                                         *)

\* The stamp of what this job stacks.
Mark == [knob |-> given.stack, all |-> FALSE]

\* The job is a run or a rerun that has left no doubt so far: a rerun that does
\* not stack starts from a directory in no doubt, one that does lifts it.
Clean ==
  /\ ~why
  /\ \/ kind = "run"
     \/ kind = "rerun" /\ tier = C /\ \A k \in Key : combined[k] = None
     \/ kind = "rerun" /\ tier # C /\ ~doubt

\* The same files, but for the edge trim.
Same(s, t) == s.from = t.from /\ s.stamp = t.stamp
Alike(c, d) == DOMAIN c = DOMAIN d /\ \A k \in DOMAIN c : Same(c[k], d[k])

\* A linear prep, and an image, of the channels in hand by the preset of the job.
Preps(x) == Alike(x.shown, Shown(chan)) /\ x.prep = given.prep /\ ~x.torn
Shows(x) ==
  /\ Alike(x.shown, Shown(chan)) /\ x.prep = given.prep
  /\ x.screen = given.screen /\ x.look = given.look
  /\ prep # None => x.shown = prep.shown

\* A run starts in an empty directory, and writes it in order.
NothingYet ==
  kind = "run" =>
    /\ record = None
    /\ pc \in {"stack", "crop", "edge", "prep", "base"} => prep = None /\ final = None
    /\ pc = "composite" /\ finish = "plain" => final = None
    /\ pc \in {"stack", "crop"} => \A k \in Key : combined[k] = None
    /\ pc \in {"stack", "crop", "edge", "prep"} => named = Planned /\ \A k \in Separated : syn[k] = None
    /\ pc = "stack" => /\ chan = Empty
                       /\ \A k \in Key : aligned[k] = None /\ (k \notin got => master[k] = None)

\* What the job has stacked carries its mark.
Stacking == Clean /\ pc = "stack" => \A f \in got : master[f] = Mark

\* The channels in hand are those that a re-entry would find.
ChannelsHeld ==
  Clean /\ pc # "stack" =>
    /\ DOMAIN chan # {} /\ \A k \in DOMAIN chan : Same(chan[k], FileOf(k)) /\ chan[k].stamp = Mark
    /\ kind = "run" => /\ DOMAIN chan \subseteq Planned
                       /\ \A k \in Key \ DOMAIN chan :
                            master[k] = None /\ aligned[k] = None /\ combined[k] = None

\* A run records the channels it separated once it shows them.
Split == splits /\ named = Planned \cup Separated /\ \A k \in Separated : syn[k] = SplitOf(chan)
Unsplit == named = Planned /\ \A k \in Separated : syn[k] = None
NamedHeld ==
  Clean /\ kind = "run" /\ pc # "stack" =>
    \/ Split
    \/ Unsplit /\ (splits => prep = None /\ final = None /\ pc \notin {"base", "composite", "judge"})

\* So are the linear prep and the image made of them.
PrepHeld ==
  Clean =>
    /\ pc = "base" => mix = Shown(chan)
    /\ pc = "composite" /\ finish = "plain" => lin = prep /\ Preps(prep)
    /\ pc \in {"composite", "judge", "stars", "record"} /\ prep # None => Preps(prep)
ImageHeld ==
  Clean /\ (pc \in {"judge", "stars", "record"} \/ (pc = "composite" /\ finish = "stars")) /\ final # None =>
    Shows(final)

\* Between two jobs, a directory in no doubt is what its checkpoint says; an
\* agent that panics leaves it so, or empty.
Told ==
  /\ manifest # None /\ record \subseteq Key
  /\ \A k \in DOMAIN FromDisk : FromDisk[k].stamp = [knob |-> manifest.stack, all |-> FALSE]
  /\ prep # None => Alike(prep.shown, Shown(FromDisk)) /\ prep.prep = manifest.prep /\ ~prep.torn
  /\ final # None => /\ Tells /\ Alike(final.shown, Shown(FromDisk))
                     /\ prep # None => final.shown = prep.shown
Trusted ==
  ~doubt /\ (Idle \/ (kind = "refine" /\ pc = "prep")) => Told \/ (record = None /\ final = None)

\* There is a job at every step but between two; a refinement stacks nothing.
Busy ==
  /\ kind = "none" => Idle
  /\ kind = "refine" => pc \notin {"stack", "crop", "edge"}

Trust == NothingYet /\ Stacking /\ ChannelsHeld /\ NamedHeld /\ PrepHeld /\ ImageHeld /\ Trusted

\* A stamp is a file.
LEMMA MarkIs == ASSUME Inv PROVE Mark # None
<1>1. given.stack \in Val
  BY DEF Inv, TypeOK, Preset
<1>2. Mark \in Stamp
  BY <1>1 DEF Mark, Stamp
<1> QED
  BY <1>2

LEMMA AlikeUncut == ASSUME NEW c \in Channels, NEW d \in Channels, Alike(c, d) PROVE Uncut(c) = Uncut(d)
<1>1. ASSUME NEW k \in DOMAIN c PROVE [c[k] EXCEPT !.trim = FALSE] = [d[k] EXCEPT !.trim = FALSE]
  <2>1. c[k] \in Source /\ d[k] \in Source /\ c[k].from = d[k].from /\ c[k].stamp = d[k].stamp
    BY ChannelsElim DEF Alike, Same
  <2> QED
    BY <2>1 DEF Source
<1>2. DOMAIN c = DOMAIN d
  BY DEF Alike
<1> QED
  BY <1>1, <1>2 DEF Uncut

\* The separated channels are as alike as the colour masters they come from.
LEMMA AlikeShown ==
  ASSUME NEW c \in Channels, NEW d \in Channels, Alike(c, d)
  PROVE  Alike(Shown(c), Shown(d))
<1>1. DOMAIN c = DOMAIN d /\ \A k \in DOMAIN c : Same(c[k], d[k])
  BY DEF Alike
<1>2. Splits(c) = Splits(d)
  BY <1>1 DEF Splits
<1>3. DOMAIN Shown(c) = DOMAIN Shown(d)
  BY <1>1, <1>2 DEF Shown
<1>4. ASSUME NEW k \in DOMAIN Shown(c) PROVE Same(Shown(c)[k], Shown(d)[k])
  <2>1. CASE Splits(c) /\ k \in Separated
    <3>1. Shown(c)[k] = SplitOf(c) /\ Shown(d)[k] = SplitOf(d)
      BY <1>2, <1>3, <1>4, <2>1 DEF Shown
    <3>2. Same(c["RGB"], d["RGB"])
      BY <1>1, <2>1 DEF Splits
    <3> QED
      BY <3>1, <3>2 DEF Same, SplitOf
  <2>2. CASE ~(Splits(c) /\ k \in Separated)
    <3>1. k \in DOMAIN c /\ Shown(c)[k] = c[k] /\ Shown(d)[k] = d[k]
      BY <1>2, <1>3, <1>4, <2>2 DEF Shown
    <3> QED
      BY <1>1, <3>1
  <2> QED
    BY <2>1, <2>2
<1> QED
  BY <1>3, <1>4 DEF Alike

\* Nothing is separated twice.
LEMMA ShownTwice == ASSUME NEW c \in Channels PROVE Shown(Shown(c)) = Shown(c)
<1>1. Shown(c) \in Channels
  BY ShownIs
<1>2. ~Splits(Shown(c))
  <2>1. CASE Splits(c)
    <3>1. "Ha" \in DOMAIN Shown(c)
      BY <2>1 DEF Shown, Separated
    <3> QED
      BY <3>1 DEF Splits
  <2>2. CASE ~Splits(c)
    <3>1. DOMAIN Shown(c) = DOMAIN c
      BY <2>2 DEF Shown
    <3> QED
      BY <2>2, <3>1 DEF Splits
  <2> QED
    BY <2>1, <2>2
<1> DEFINE d == Shown(c)
<1>3. d = [k \in DOMAIN d |-> d[k]]
  BY <1>1, ChannelsElim
<1>4. ~Splits(d)
  BY <1>2
<1> HIDE DEF d
<1>5. Shown(d) = [k \in DOMAIN d |-> d[k]]
  BY <1>4 DEF Shown
<1> QED
  BY <1>3, <1>5 DEF d

LEMMA ShownMarks ==
  ASSUME NEW c \in Channels, NEW m, \A k \in DOMAIN c : c[k].stamp = m
  PROVE  \A k \in DOMAIN Shown(c) : Shown(c)[k].stamp = m
<1> SUFFICES ASSUME NEW k \in DOMAIN Shown(c) PROVE Shown(c)[k].stamp = m
  OBVIOUS
<1>1. CASE Splits(c) /\ k \in Separated
  <2>1. Shown(c)[k] = SplitOf(c)
    BY <1>1 DEF Shown
  <2> QED
    BY <1>1, <2>1, SplitIs DEF Splits
<1>2. CASE ~(Splits(c) /\ k \in Separated)
  <2>1. k \in DOMAIN c /\ Shown(c)[k] = c[k]
    BY <1>2 DEF Shown
  <2> QED
    BY <2>1
<1> QED
  BY <1>1, <1>2

LEMMA AlikeSame == \A c : Alike(c, c)
  BY DEF Alike, Same

LEMMA AlikeTrans == ASSUME NEW c, NEW d, NEW e, Alike(c, d), Alike(d, e) PROVE Alike(c, e) /\ Alike(d, c)
  BY DEF Alike, Same

\* That is the property.
LEMMA TrustTells == ASSUME Inv, Trust PROVE CheckpointTells
<1> SUFFICES ASSUME Idle, ~doubt, final # None PROVE manifest # None /\ Tells /\ Reenters
  BY DEF CheckpointTells
<1>1. Told
  BY DEF Trust, Trusted
<1>2. final.shown \in Channels
  BY DEF Inv, TypeOK, Picture
<1>3. FromDisk \in Channels /\ Shown(FromDisk) \in Channels
  BY <1>1, FromDiskIs, ShownIs DEF Told, Inv
<1>4. Uncut(Shown(FromDisk)) = Uncut(final.shown)
  <2>1. Alike(final.shown, Shown(FromDisk))
    BY <1>1 DEF Told
  <2> QED
    BY <1>2, <1>3, <2>1, AlikeUncut
<1>5. prep # None => prep.shown = final.shown /\ prep.prep = final.prep /\ ~prep.torn
  BY <1>1 DEF Told, Tells
<1> QED
  BY <1>1, <1>4, <1>5 DEF Told, Reenters

LEMMA InitTrust == ASSUME Init PROVE Trust /\ Busy
<1>1. NothingYet /\ Stacking /\ Busy
  BY DEF Init, NothingYet, Stacking, Busy
<1>2. ChannelsHeld /\ NamedHeld
  BY DEF Init, ChannelsHeld, NamedHeld
<1>3. PrepHeld /\ ImageHeld /\ Trusted
  BY DEF Init, PrepHeld, ImageHeld, Trusted, Idle
<1> QED
  BY <1>1, <1>2, <1>3 DEF Trust

\* Within a job nothing clears a doubt.
LEMMA CleanWas ==
  ASSUME UNCHANGED <<kind, tier, doubt>>, why => why', kind = "run" \/ combined' = combined, Clean'
  PROVE  Clean /\ ~why' /\ kind \in {"run", "rerun"}
  BY DEF Clean

\* Nothing is asked of a job in doubt.
LEMMA NotClean ==
  ASSUME ~Clean'
  PROVE  Stacking' /\ ChannelsHeld' /\ NamedHeld' /\ PrepHeld' /\ ImageHeld'
  BY DEF Stacking, ChannelsHeld, NamedHeld, PrepHeld, ImageHeld

LEMMA FilesStay ==
  ASSUME UNCHANGED <<masters, syn>>
  PROVE  \A f : FileOf(f)' = FileOf(f)
  BY DEF FileOf, masters

LEMMA ShownStays == ASSUME splits' = splits, NEW c PROVE Shown(c)' = Shown(c)
  BY DEF Shown, Splits, SplitOf

\* What the directory tells is in its files.
LEMMA ToldStays == ASSUME UNCHANGED <<disk, splits>> PROVE Told' = Told
<1>1. \A f : FileOf(f)' = FileOf(f)
  BY FilesStay DEF disk
<1>2. FromDisk' = FromDisk
  BY <1>1 DEF FromDisk, disk
<1>3. Shown(FromDisk)' = Shown(FromDisk)
  BY <1>2 DEF Shown, Splits, SplitOf
<1> QED
  BY <1>2, <1>3 DEF Told, Tells, Alike, Same, disk

-----------------------------------------------------------------------------
(* One lemma per action: the checkpoint.                                   *)

LEMMA StackTrust == ASSUME Inv, Busy, Trust, NEW f \in Planned, Stack(f) PROVE Trust'
<1>1. /\ pc = "stack" /\ pc' = "stack" /\ todo' = todo \ {f}
      /\ UNCHANGED <<aligned, combined, syn, prep, final, manifest, record, kind, given, tier, work, finish, chan,
                     named, doubt, options>>
  BY DEF Stack, plan, loop, Inv, TypeOK
<1>2. why => why'
  BY DEF Stack, Untold
<1>3. ChannelsHeld' /\ NamedHeld' /\ PrepHeld' /\ ImageHeld' /\ Trusted'
  BY <1>1 DEF ChannelsHeld, NamedHeld, PrepHeld, ImageHeld, Trusted, Idle
<1>4. master \in [Key -> File] /\ got \subseteq Key /\ f \in Key
  BY PlannedKeys DEF Inv, TypeOK
<1>5. NothingYet'
  <2>1. Planned' = Planned
    BY <1>1 DEF Planned, options
  <2>2. \A k \in Key : k \notin got' => k \notin got /\ master'[k] = master[k]
    BY <1>4 DEF Stack
  <2> QED
    BY <1>1, <2>1, <2>2 DEF Trust, NothingYet
<1>6. Stacking'
  <2> SUFFICES ASSUME Clean' PROVE Stacking'
    BY DEF Stacking
  <2>1. Clean /\ ~why' /\ Mark' = Mark
    BY <1>1, <1>2, CleanWas DEF Mark
  <2>2. work = given
    BY <1>1, <2>1 DEF Inv, Plain, Clean
  <2>3. \A g \in got : master[g] = Mark
    BY <1>1, <2>1 DEF Trust, Stacking
  <2>4. CASE got' = got /\ master' = master
    BY <2>1, <2>3, <2>4 DEF Stacking
  <2>5. CASE /\ got' = got \cup {f} /\ Untold(IF excludes /\ kind = "rerun" THEN {"excluded"} ELSE {})
             /\ master' = [master EXCEPT ![f] = [knob |-> work.stack, all |-> excludes /\ kind = "rerun"]]
    <3>1. ~(excludes /\ kind = "rerun")
      BY <2>1, <2>5 DEF Untold
    <3>2. (excludes /\ kind = "rerun") = FALSE
      BY <3>1
    <3>3. master'[f] = Mark /\ \A g \in Key \ {f} : master'[g] = master[g]
      BY <1>4, <2>2, <2>5, <3>2 DEF Mark
    <3> QED
      BY <1>4, <2>1, <2>3, <2>5, <3>3 DEF Stacking
  <2> QED
    BY <2>4, <2>5 DEF Stack
<1> QED
  BY <1>3, <1>5, <1>6 DEF Trust

LEMMA AlignTrust == ASSUME Inv, Inv', Busy, Trust, Align PROVE Trust'
<1> DEFINE K == {KeyOf(f) : f \in got}
<1>1. /\ pc = "stack" /\ pc' \in {"crop", "prep"} /\ got # {} /\ (kind = "run" <=> pc' = "crop")
      /\ UNCHANGED <<master, combined, syn, prep, final, manifest, record, kind, given, tier, work, got, named,
                     doubt, options>>
  BY DEF Align, plan, stacks, loop
<1>2. why => why'
  BY DEF Align, Untold
<1>3. Trusted' /\ Stacking' /\ NothingYet'
  <2>1. Trusted' /\ Stacking'
    BY <1>1 DEF Busy, Trusted, Idle, Stacking
  <2>2. Planned' = Planned
    BY <1>1 DEF Planned, options
  <2>3. NothingYet'
    BY <1>1, <2>2 DEF Trust, NothingYet
  <2> QED
    BY <2>1, <2>3
<1> SUFFICES ASSUME Clean' PROVE Trust'
  BY <1>3, NotClean DEF Trust
<1>4. Clean /\ ~why' /\ Mark' = Mark /\ kind \in {"run", "rerun"}
  BY <1>1, <1>2, CleanWas DEF Mark
<1>5. Mark # None
  BY MarkIs
<1>6. K = got /\ \A f \in got : KeyOf(f) = f
  <2>1. K \subseteq got
    BY <1>4 DEF Align, Untold
  <2>2. \A f \in got : KeyOf(f) # f => KeyOf(f) = "B" /\ "B" \notin got
    BY KeyInjective DEF Inv
  <2> QED
    BY <2>1, <2>2
<1>7. \/ chan' = Unaligned(K) /\ UNCHANGED aligned /\ \A k \in K : aligned[k] = None
      \/ chan' = Aligned(K) /\ Register(K)
  BY <1>4 DEF Align, CompositeOf, Untold
<1>8. DOMAIN chan' = got /\ got \subseteq Key /\ got \subseteq Planned
  BY <1>6, <1>7, PlannedKeys DEF Unaligned, Aligned, Inv, TypeOK
<1>9. \A k \in Key : combined[k] = None
  BY <1>1, <1>4 DEF Clean, Trust, NothingYet, Inv, Plain
<1>10. \A f \in got : master[f] = Mark
  BY <1>1, <1>4 DEF Trust, Stacking
<1>11. PrepHeld' /\ ImageHeld'
  BY <1>1 DEF PrepHeld, ImageHeld
<1>12. NamedHeld'
  <2>1. kind = "run" => named = Planned /\ (\A k \in Separated : syn[k] = None) /\ prep = None /\ final = None
    BY <1>1 DEF Trust, NothingYet
  <2>2. Planned' = Planned
    BY <1>1 DEF Planned, options
  <2> QED
    BY <1>1, <2>1, <2>2 DEF NamedHeld, Unsplit
<1>13. ASSUME NEW k \in got PROVE Same(chan'[k], FileOf(k)') /\ chan'[k].stamp = Mark
  <2>1. k \in Key /\ KeyOf(k) = k /\ master[k] = Mark /\ combined'[k] = None /\ k \in K
    BY <1>1, <1>6, <1>8, <1>9, <1>10
  <2>2. CASE chan' = Unaligned(K) /\ UNCHANGED aligned /\ \A q \in K : aligned[q] = None
    <3>1. chan'[k] = [from |-> "master", trim |-> FALSE, stamp |-> Mark]
      BY <2>1, <2>2 DEF Unaligned
    <3>2. FileOf(k)' = [from |-> "master", trim |-> FALSE, stamp |-> Mark]
      BY <1>1, <1>5, <2>1, <2>2 DEF FileOf
    <3> QED
      BY <3>1, <3>2 DEF Same
  <2>3. CASE chan' = Aligned(K) /\ Register(K)
    <3>1. Aligned(K)[k] = [from |-> "aligned", trim |-> FALSE, stamp |-> Mark]
      <4>1. Aligned(K)[KeyOf(k)] = [from |-> "aligned", trim |-> FALSE, stamp |-> master[k]]
        BY <2>1, AlignedIs DEF Inv
      <4> QED
        BY <2>1, <4>1
    <3>2. Aligned(K)[k].stamp = Mark
      BY <3>1
    <3>3. aligned'[k] = Mark
      BY <2>1, <2>3, <3>2 DEF Register
    <3>4. FileOf(k)' = [from |-> "aligned", trim |-> FALSE, stamp |-> Mark]
      BY <1>5, <2>1, <3>3 DEF FileOf
    <3> QED
      BY <2>3, <3>1, <3>4 DEF Same
  <2> QED
    BY <1>7, <2>2, <2>3
<1>14. ASSUME kind = "run", NEW k \in Key \ got
       PROVE  master'[k] = None /\ aligned'[k] = None /\ combined'[k] = None
  <2>1. master[k] = None /\ aligned[k] = None /\ combined[k] = None
    BY <1>1, <1>14 DEF Trust, NothingYet
  <2>2. aligned'[k] = None
    BY <1>6, <1>7, <2>1 DEF Register
  <2> QED
    BY <1>1, <2>1, <2>2
<1>15. ChannelsHeld'
  <2>1. Planned' = Planned
    BY <1>1 DEF Planned, options
  <2> QED
    BY <1>1, <1>4, <1>8, <1>13, <1>14, <2>1 DEF ChannelsHeld
<1> QED
  BY <1>3, <1>11, <1>12, <1>15 DEF Trust

LEMMA CropTrust == ASSUME Inv, Inv', Busy, Trust, Crop PROVE Trust'
<1>1. /\ pc = "crop" /\ pc' = "edge" /\ kind = "run" /\ finish' = finish
      /\ UNCHANGED <<master, aligned, syn, prep, final, manifest, record, kind, given, tier, named, doubt, options>>
  BY DEF Crop, plan, stacks, loop, Inv, Plain, Busy, Idle, TypeOK
<1>2. why => why'
  BY DEF Crop, Untold
<1>3. Planned' = Planned
  BY <1>1 DEF Planned, options
<1>4. Trusted' /\ Stacking' /\ NothingYet' /\ PrepHeld' /\ ImageHeld'
  <2>1. Trusted' /\ Stacking' /\ PrepHeld' /\ ImageHeld'
    BY <1>1 DEF Trusted, Idle, Stacking, PrepHeld, ImageHeld
  <2>2. NothingYet'
    BY <1>1, <1>3 DEF Trust, NothingYet
  <2> QED
    BY <2>1, <2>2
<1> SUFFICES ASSUME Clean' PROVE Trust'
  BY <1>4, NotClean DEF Trust
<1>5. Clean /\ ~why' /\ Mark' = Mark
  BY <1>1, <1>2, CleanWas DEF Mark
<1>6. Mark # None
  BY MarkIs
<1>7. NamedHeld'
  <2>1. named = Planned /\ (\A k \in Separated : syn[k] = None) /\ prep = None /\ final = None
    BY <1>1 DEF Trust, NothingYet
  <2> QED
    BY <1>1, <1>3, <2>1 DEF NamedHeld, Unsplit
<1> DEFINE cut == /\ combined' = [k \in Key |-> IF k \in DOMAIN chan THEN chan[k].stamp ELSE None]
                  /\ chan' = [k \in DOMAIN chan |-> [chan[k] EXCEPT !.from = "combine"]]
<1>8. UNCHANGED <<combined, chan>> \/ cut
  BY <1>5 DEF Crop, Untold
<1>9. /\ DOMAIN chan # {} /\ \A k \in DOMAIN chan : Same(chan[k], FileOf(k)) /\ chan[k].stamp = Mark
      /\ DOMAIN chan \subseteq Planned
      /\ \A k \in Key \ DOMAIN chan : master[k] = None /\ aligned[k] = None /\ combined[k] = None
  BY <1>1, <1>5 DEF Trust, ChannelsHeld
<1>10. CASE UNCHANGED <<combined, chan>>
  <2>1. \A f : FileOf(f)' = FileOf(f)
    BY <1>1, <1>10, FilesStay DEF masters
  <2>2. ChannelsHeld'
    BY <1>1, <1>3, <1>5, <1>9, <1>10, <2>1 DEF ChannelsHeld
  <2> QED
    BY <1>4, <1>7, <2>2 DEF Trust
<1>11. CASE cut
  <2>1. \A k \in DOMAIN chan : k \in Key /\ chan[k] \in Source
    BY ChannelsElim DEF Inv, TypeOK
  <2>2. DOMAIN chan' = DOMAIN chan
    BY <1>11
  <2>3. ASSUME NEW k \in DOMAIN chan PROVE Same(chan'[k], FileOf(k)') /\ chan'[k].stamp = Mark
    <3>1. combined'[k] = Mark
      BY <1>9, <1>11, <2>1
    <3>2. chan'[k].from = "combine" /\ chan'[k].stamp = Mark
      BY <1>9, <1>11, <2>1 DEF Source
    <3>3. FileOf(k)' = [from |-> "combine", trim |-> FALSE, stamp |-> Mark]
      BY <1>6, <3>1 DEF FileOf
    <3> QED
      BY <3>2, <3>3 DEF Same
  <2>4. \A k \in Key \ DOMAIN chan : combined'[k] = None
    BY <1>11
  <2>5. ChannelsHeld'
    BY <1>1, <1>3, <1>5, <1>9, <2>2, <2>3, <2>4 DEF ChannelsHeld
  <2> QED
    BY <1>4, <1>7, <2>5 DEF Trust
<1> QED
  BY <1>8, <1>10, <1>11

LEMMA EdgeCropTrust == ASSUME Inv, Inv', Busy, Trust, EdgeCrop PROVE Trust'
<1>1. /\ pc = "edge" /\ pc' = "prep" /\ kind = "run"
      /\ UNCHANGED <<disk, kind, given, tier, named, why, doubt, options, finish>>
  BY DEF EdgeCrop, plan, counts, Inv, Plain, Busy, Idle, TypeOK
<1>2. Planned' = Planned
  BY <1>1 DEF Planned, options
<1>3. Trusted' /\ Stacking' /\ NothingYet' /\ PrepHeld' /\ ImageHeld'
  <2>1. Trusted' /\ Stacking' /\ PrepHeld' /\ ImageHeld'
    BY <1>1 DEF Trusted, Idle, Stacking, PrepHeld, ImageHeld
  <2>2. NothingYet'
    BY <1>1, <1>2 DEF Trust, NothingYet, disk, masters
  <2> QED
    BY <2>1, <2>2
<1> SUFFICES ASSUME Clean' PROVE Trust'
  BY <1>3, NotClean DEF Trust
<1>5. Clean /\ ~why' /\ Mark' = Mark
  BY <1>1, CleanWas DEF Mark
<1>7. NamedHeld'
  <2>1. named = Planned /\ (\A k \in Separated : syn[k] = None) /\ prep = None /\ final = None
    BY <1>1 DEF Trust, NothingYet
  <2> QED
    BY <1>1, <1>2, <2>1 DEF NamedHeld, Unsplit, disk
<1>9. /\ DOMAIN chan # {} /\ \A k \in DOMAIN chan : Same(chan[k], FileOf(k)) /\ chan[k].stamp = Mark
      /\ DOMAIN chan \subseteq Planned
      /\ \A k \in Key \ DOMAIN chan : master[k] = None /\ aligned[k] = None /\ combined[k] = None
  BY <1>1, <1>5 DEF Trust, ChannelsHeld
<1>10. DOMAIN chan' = DOMAIN chan /\ \A k \in DOMAIN chan : Same(chan'[k], chan[k])
  <2>1. \A k \in DOMAIN chan : chan[k] \in Source
    BY ChannelsElim DEF Inv, TypeOK
  <2>2. CASE chan' = chan
    BY <2>2 DEF Same
  <2>3. CASE chan' = [k \in DOMAIN chan |-> [chan[k] EXCEPT !.trim = TRUE]]
    BY <2>1, <2>3 DEF Same, Source
  <2> QED
    BY <2>2, <2>3 DEF EdgeCrop
<1>11. \A f : FileOf(f)' = FileOf(f)
  BY <1>1, FilesStay DEF disk
<1>12. \A k \in DOMAIN chan : Same(chan'[k], FileOf(k)') /\ chan'[k].stamp = Mark
  BY <1>9, <1>10, <1>11 DEF Same
<1>13. ChannelsHeld'
  BY <1>1, <1>2, <1>5, <1>9, <1>10, <1>12 DEF ChannelsHeld, disk, masters
<1> QED
  BY <1>3, <1>7, <1>13 DEF Trust

\* The separation: a run names what it separated; a channel that was separated
\* before is separated again from the same master.
LEMMA SeparateTrust == ASSUME Inv, Inv', Busy, Trust, Separate PROVE Trust'
<1>1. /\ pc = "prep" /\ pc' = "base" /\ finish = "plain" /\ finish' = finish
      /\ UNCHANGED <<masters, prep, final, manifest, record, kind, given, tier, chan, doubt, options>>
  BY DEF Separate, plan
<1>2. why => why'
  BY DEF Separate, Untold
<1>3. Planned' = Planned
  BY <1>1 DEF Planned, options
<1>4. Trusted' /\ Stacking' /\ NothingYet' /\ ImageHeld'
  <2>1. Trusted' /\ Stacking' /\ ImageHeld'
    BY <1>1 DEF Trusted, Idle, Stacking, ImageHeld
  <2>2. NothingYet'
    BY <1>1 DEF Trust, NothingYet
  <2> QED
    BY <2>1, <2>2
<1> SUFFICES ASSUME Clean' PROVE Trust'
  BY <1>4, NotClean DEF Trust
<1>5. Clean /\ ~why' /\ Mark' = Mark /\ kind \in {"run", "rerun"}
  BY <1>1, <1>2, CleanWas DEF Mark, masters
<1>6. Mark # None
  BY MarkIs
<1>7. /\ mix' = Shown(chan) /\ syn' = IF Splits(chan) THEN [k \in Separated |-> SplitOf(chan)] ELSE syn
      /\ named' = named \cup (Emission \cap DOMAIN mix')
  BY <1>5 DEF Separate, Untold
<1>8. chan \in Channels /\ Shown(chan)' = Shown(chan) /\ SplitOf(chan)' = SplitOf(chan)
  BY <1>1 DEF Inv, TypeOK, options, Shown, Splits, SplitOf
<1>9. PrepHeld'
  BY <1>1, <1>7, <1>8 DEF PrepHeld
<1>10. /\ DOMAIN chan # {} /\ \A k \in DOMAIN chan : Same(chan[k], FileOf(k)) /\ chan[k].stamp = Mark
       /\ kind = "run" => /\ DOMAIN chan \subseteq Planned
                          /\ \A k \in Key \ DOMAIN chan :
                               master[k] = None /\ aligned[k] = None /\ combined[k] = None
  BY <1>1, <1>5 DEF Trust, ChannelsHeld
<1>11. Splits(chan) => SplitOf(chan).from = "syn" /\ SplitOf(chan).stamp = Mark
  BY <1>10 DEF SplitOf, Splits
<1>12. ASSUME NEW k \in DOMAIN chan PROVE Same(chan[k], FileOf(k)')
  <2>1. UNCHANGED <<master[k], aligned[k], combined[k]>>
    BY <1>1 DEF masters
  <2>2. Same(chan[k], FileOf(k)) /\ chan[k].stamp = Mark
    BY <1>10
  <2>3. CASE combined[k] = None /\ aligned[k] = None /\ k \in Separated /\ master[k] = None /\ Splits(chan)
    <3>1. syn[k] # None
      <4> SUFFICES ASSUME syn[k] = None PROVE FALSE
        OBVIOUS
      <4>1. FileOf(k) = [from |-> "master", trim |-> FALSE, stamp |-> None]
        BY <2>3 DEF FileOf
      <4>2. FileOf(k).stamp = None
        BY <4>1
      <4> QED
        BY <1>6, <2>2, <4>2 DEF Same
    <3>2. FileOf(k) = syn[k] /\ syn[k] \in SynFile
      BY <2>3, <3>1 DEF FileOf, Inv, TypeOK
    <3>3. syn'[k] = SplitOf(chan)
      BY <1>7, <2>3
    <3>4. SplitOf(chan) # None
      BY <1>8, <2>3, SplitIs
    <3>5. FileOf(k)' = SplitOf(chan)
      BY <2>1, <2>3, <3>3, <3>4 DEF FileOf
    <3> QED
      BY <1>11, <2>2, <2>3, <3>2, <3>5 DEF Same, SynFile
  <2>4. CASE ~(combined[k] = None /\ aligned[k] = None /\ k \in Separated /\ master[k] = None)
    <3>1. FileOf(k)' = FileOf(k)
      BY <2>1, <2>4 DEF FileOf
    <3> QED
      BY <2>2, <3>1
  <2>5. CASE ~Splits(chan)
    <3>1. FileOf(k)' = FileOf(k)
      BY <1>1, <1>7, <2>5, FilesStay
    <3> QED
      BY <2>2, <3>1
  <2> QED
    BY <2>3, <2>4, <2>5
<1>13. ChannelsHeld'
  BY <1>1, <1>3, <1>5, <1>10, <1>12 DEF ChannelsHeld, masters
<1>14. NamedHeld'
  <2> SUFFICES ASSUME kind = "run" PROVE Split' \/ (Unsplit' /\ ~splits)
    BY <1>1 DEF NamedHeld, options
  <2>1. named = Planned /\ \A k \in Separated : syn[k] = None
    BY <1>1 DEF Trust, NothingYet
  <2>2. CASE splits
    <3>1. DOMAIN chan = {"RGB"} /\ Planned = {"RGB"}
      BY <1>10, <2>2 DEF Planned
    <3>2. Splits(chan)
      BY <2>2, <3>1 DEF Splits
    <3>3. DOMAIN mix' = {"RGB"} \cup Separated
      BY <1>7, <3>1, <3>2 DEF Shown
    <3>4. named' = Planned \cup Separated
      BY <1>7, <2>1, <3>1, <3>3 DEF Emission, Separated
    <3>5. \A k \in Separated : syn'[k] = SplitOf(chan)'
      BY <1>7, <1>8, <3>2
    <3> QED
      BY <1>1, <1>3, <2>2, <3>4, <3>5 DEF Split, options
  <2>3. CASE ~splits
    <3>1. ~Splits(chan)
      BY <2>3 DEF Splits
    <3>2. DOMAIN mix' = DOMAIN chan
      BY <1>7, <3>1 DEF Shown
    <3>3. named' = Planned /\ syn' = syn
      BY <1>7, <1>10, <2>1, <3>1, <3>2
    <3> QED
      BY <1>3, <2>1, <2>3, <3>3 DEF Unsplit
  <2> QED
    BY <2>2, <2>3
<1> QED
  BY <1>4, <1>9, <1>13, <1>14 DEF Trust

\* The rest of the finish leaves the stacks, and the channels made of them, alone.
Finishing ==
  /\ pc \in {"prep", "base", "composite", "judge", "stars"} /\ pc' \in {"composite", "judge", "stars", "record"}
  /\ UNCHANGED <<masters, syn, manifest, record, kind, given, tier, chan, named, doubt, options>>
  /\ why => why'

LEMMA FinishTrust ==
  ASSUME Inv, Trust, Finishing, NothingYet',
         Clean /\ Clean' => /\ PrepHeld' /\ ImageHeld'
                            /\ \/ kind # "run" \/ Split \/ ~splits
                               \/ prep' = None /\ final' = None /\ pc' \notin {"composite", "judge"}
  PROVE  Trust'
<1>1. Trusted' /\ Stacking'
  BY DEF Finishing, Trusted, Idle, Stacking
<1> SUFFICES ASSUME Clean' PROVE Trust'
  BY <1>1, NotClean DEF Trust
<1>2. Clean /\ ~why' /\ Mark' = Mark /\ kind \in {"run", "rerun"}
  BY CleanWas DEF Finishing, Mark, masters
<1>3. Planned' = Planned /\ SplitOf(chan)' = SplitOf(chan) /\ splits' = splits
  BY DEF Finishing, options, Planned, SplitOf
<1>4. Split' = Split /\ Unsplit' = Unsplit
  BY <1>3 DEF Finishing, Split, Unsplit
<1>5. ChannelsHeld'
  <2>1. \A f : FileOf(f)' = FileOf(f)
    BY FilesStay DEF Finishing
  <2> QED
    BY <1>2, <1>3, <2>1 DEF Trust, ChannelsHeld, Finishing, masters
<1>6. NamedHeld'
  <2> SUFFICES ASSUME kind = "run"
               PROVE  \/ Split'
                      \/ Unsplit' /\ (splits => prep' = None /\ final' = None
                                                /\ pc' \notin {"base", "composite", "judge"})
    BY <1>3 DEF NamedHeld, Finishing
  <2>1. Split \/ Unsplit
    BY <1>2 DEF Trust, NamedHeld, Finishing
  <2> QED
    BY <1>2, <1>3, <1>4, <2>1 DEF Finishing
<1> QED
  BY <1>1, <1>2, <1>5, <1>6 DEF Trust

\* What a clean job has in hand.
LEMMA InHand ==
  ASSUME Trust, Clean
  PROVE  /\ pc = "base" => mix = Shown(chan)
         /\ pc = "composite" /\ finish = "plain" => lin = prep /\ Preps(prep)
         /\ pc \in {"composite", "judge", "stars", "record"} /\ prep # None => Preps(prep)
         /\ kind = "run" /\ pc # "stack" =>
              Split \/ ~splits \/ (prep = None /\ final = None /\ pc \notin {"base", "composite", "judge"})
  BY DEF Trust, PrepHeld, NamedHeld

LEMMA MakePrepTrust == ASSUME Inv, Busy, Trust, MakePrep PROVE Trust'
<1>1. /\ pc = "base" /\ pc' = "composite" /\ lin' = Linear(FALSE) /\ finish' = finish /\ finish = "plain"
      /\ UNCHANGED <<final, work, chan, given, splits>>
  BY DEF MakePrep, loop, plan, options, Inv, Plain, TypeOK
<1>2. Finishing
  <2>1. why => why'
    BY DEF MakePrep, Untold
  <2> QED
    BY <1>1, <2>1 DEF MakePrep, Finishing, plan
<1>3. NothingYet'
  BY <1>1, <1>2 DEF Trust, NothingYet, Finishing
<1>4. ASSUME Clean, Clean' PROVE PrepHeld' /\ ImageHeld' /\ (kind # "run" \/ Split \/ ~splits)
  <2>1. mix = Shown(chan) /\ work = given /\ (kind # "run" \/ Split \/ ~splits)
    BY <1>1, <1>4, InHand DEF Inv, Plain
  <2>2. prep' = Linear(FALSE) /\ Linear(FALSE) = [shown |-> Shown(chan), prep |-> given.prep,
                                                  screen |-> given.screen, torn |-> FALSE]
    BY <1>4, <2>1 DEF MakePrep, Untold, Clean, Linear
  <2>3. Shown(chan)' = Shown(chan)
    BY <1>1 DEF Shown, Splits, SplitOf
  <2>4. prep'.shown = Shown(chan)' /\ prep'.prep = given'.prep /\ prep'.torn = FALSE
    <3>1. prep' = [shown |-> Shown(chan), prep |-> given.prep, screen |-> given.screen, torn |-> FALSE]
      BY <2>2
    <3>2. prep'.shown = Shown(chan) /\ prep'.prep = given.prep /\ prep'.torn = FALSE
      BY <3>1
    <3> QED
      BY <1>1, <2>3, <3>2
  <2>5. Preps(prep)'
    BY <2>4 DEF Preps, Alike, Same
  <2>6. PrepHeld'
    BY <1>1, <2>2, <2>5 DEF PrepHeld
  <2>7. ImageHeld'
    BY <1>1 DEF ImageHeld
  <2> QED
    BY <2>1, <2>6, <2>7
<1> QED
  BY <1>2, <1>3, <1>4, FinishTrust

LEMMA CompositeTrust == ASSUME Inv, Busy, Trust, Composite PROVE Trust'
<1>1. /\ pc = "composite" /\ finish' = finish
      /\ \/ finish = "plain" /\ final' = Image /\ pc' \in {"record", "stars"}
         \/ finish # "plain" /\ pc' = "judge" /\ final' = final
      /\ UNCHANGED <<prep, lin, work, chan, given, splits>>
  BY DEF Composite, plan, counts, options
<1>2. Finishing
  BY <1>1 DEF Composite, Finishing, Untold, plan, counts
<1>3. NothingYet'
  BY <1>1, <1>2 DEF Trust, NothingYet, Finishing
<1>4. ASSUME Clean, Clean' PROVE PrepHeld' /\ ImageHeld' /\ (kind # "run" \/ Split \/ ~splits)
  <2>1. /\ finish = "plain" => lin = prep /\ Preps(prep) /\ work = given
        /\ prep # None => Preps(prep)
        /\ kind # "run" \/ Split \/ ~splits
    BY <1>1, <1>4, InHand DEF Inv, Plain
  <2>2. Shown(chan)' = Shown(chan)
    BY <1>1 DEF Shown, Splits, SplitOf
  <2>3. prep # None => Preps(prep)'
    BY <1>1, <2>1, <2>2 DEF Preps, Alike, Same
  <2>4. PrepHeld'
    BY <1>1, <2>3 DEF PrepHeld
  <2>5. CASE finish = "plain"
    <3>1. lin = prep /\ work = given /\ Preps(prep)
      BY <2>1, <2>5
    <3>2. Image.screen = work.screen
      BY <1>4, <2>5 DEF Composite, Untold, Clean
    <3>3. /\ Image.shown = prep.shown /\ Image.prep = prep.prep /\ Image.look = given.look
          /\ Image.screen = given.screen
      BY <2>5, <3>1, <3>2 DEF Image
    <3>4. Shows(final)'
      BY <1>1, <2>1, <2>2, <2>5, <3>1, <3>3 DEF Shows, Preps, Alike, Same
    <3> QED
      BY <2>1, <2>4, <3>4 DEF ImageHeld
  <2>6. CASE finish # "plain"
    <3>1. finish = "stars"
      BY <1>1, <2>6 DEF Inv, Plain, TypeOK
    <3>2. final # None => Shows(final)
      BY <1>1, <1>4, <3>1 DEF Trust, ImageHeld
    <3>3. final # None => Shows(final)'
      BY <1>1, <2>2, <2>6, <3>2 DEF Shows, Alike, Same
    <3> QED
      BY <1>1, <2>1, <2>4, <2>6, <3>3 DEF ImageHeld
  <2> QED
    BY <2>5, <2>6
<1> QED
  BY <1>2, <1>3, <1>4, FinishTrust

\* The star repair keeps the image of the finish, or its best pass and a doubt.
LEMMA StarsTrust ==
  ASSUME Inv, Trust, Finishing, pc \in {"stars", "judge"} \/ (pc = "composite" /\ finish = "stars"),
         prep' = prep, ~why' => final' = final,
         pc' = "record" \/ (pc' = "composite" /\ finish' = "stars" /\ (pc = "stars" => prep # None))
  PROVE  Trust'
<1>1. NothingYet'
  BY DEF Trust, NothingYet, Finishing
<1>2. ASSUME Clean, Clean'
      PROVE  /\ PrepHeld' /\ ImageHeld'
             /\ \/ kind # "run" \/ Split \/ ~splits
                \/ prep' = None /\ final' = None /\ pc' \notin {"composite", "judge"}
  <2>1. /\ prep # None => Preps(prep)
        /\ \/ kind # "run" \/ Split \/ ~splits
           \/ prep = None /\ final = None /\ pc \notin {"base", "composite", "judge"}
    BY <1>2, InHand
  <2>2. final' = final /\ (final # None => Shows(final))
    BY <1>2 DEF Clean, Trust, ImageHeld
  <2>3. Shown(chan)' = Shown(chan)
    BY DEF Finishing, options, Shown, Splits, SplitOf
  <2>4. prep # None => Preps(prep)'
    BY <2>1, <2>3 DEF Preps, Alike, Same, Finishing
  <2>5. PrepHeld'
    BY <2>4 DEF PrepHeld
  <2>6. final # None => Shows(final)'
    BY <2>2, <2>3 DEF Shows, Alike, Same, Finishing
  <2>7. ImageHeld'
    BY <2>2, <2>6 DEF ImageHeld
  <2> QED
    BY <2>1, <2>2, <2>5, <2>7
<1> QED
  BY <1>1, <1>2, FinishTrust

LEMMA CheckStarsTrust == ASSUME Inv, Busy, Trust, CheckStars PROVE Trust'
<1>1. /\ pc = "stars" /\ prep' = prep /\ final' = final
      /\ pc' = "record" \/ (pc' = "composite" /\ finish' = "stars" /\ prep # None)
  BY DEF CheckStars, StarPass, disk
<1>2. Finishing
  BY <1>1 DEF CheckStars, Finishing, disk, plan, counts
<1> QED
  BY <1>1, <1>2, StarsTrust

LEMMA JudgeStarsTrust == ASSUME Inv, Busy, Trust, JudgeStars PROVE Trust'
<1>1. pc = "judge" /\ prep' = prep /\ finish' = finish /\ finish = "stars"
  BY DEF JudgeStars, Inv, Plain
<1>2. \/ pc' = "record" /\ (final' = final \/ why') /\ (why => why')
      \/ pc' = "composite" /\ UNCHANGED <<final, why>>
  <2>1. ASSUME NEW b, Promote(b) PROVE pc' = "record" /\ (final' = final \/ why') /\ (why => why')
    BY <2>1 DEF Promote, Untold
  <2> QED
    BY <2>1 DEF JudgeStars, StarPass
<1>3. Finishing
  BY <1>1, <1>2 DEF JudgeStars, Finishing, plan, counts
<1> QED
  BY <1>1, <1>2, <1>3, StarsTrust

LEMMA PassFailsTrust == ASSUME Inv, Busy, Trust, PassFails PROVE Trust'
<1>1. /\ pc = "composite" /\ finish = "stars" /\ prep' = prep
      /\ pc' = "record" /\ (final' = final \/ why') /\ (why => why')
  BY DEF PassFails, Promote, Untold
<1>2. Finishing
  BY <1>1 DEF PassFails, Finishing, plan
<1> QED
  BY <1>1, <1>2, StarsTrust

LEMMA FinishFailsTrust == ASSUME Inv, Busy, Trust, FinishFails PROVE Trust'
<1>1. /\ kind # "rerun" /\ finish = "plain" /\ pc \in {"prep", "base", "composite"} /\ pc' = "record"
      /\ prep' = prep /\ kind' = kind
      /\ (why' /\ Readable) \/ (kind = "run" /\ final' = None /\ why' = why)
  BY DEF FinishFails, StepFails, Untold, plan
<1>2. Finishing
  BY <1>1 DEF FinishFails, Finishing, plan
<1>3. NothingYet'
  BY <1>1, <1>2 DEF Trust, NothingYet, Finishing
<1>4. ASSUME Clean, Clean'
      PROVE  /\ PrepHeld' /\ ImageHeld'
             /\ \/ kind # "run" \/ Split \/ ~splits
                \/ prep' = None /\ final' = None /\ pc' \notin {"composite", "judge"}
  <2>1. kind = "run" /\ final' = None
    BY <1>1, <1>4 DEF Clean
  <2>2. /\ pc # "composite" => prep = None
        /\ prep # None => Preps(prep)
    BY <1>1, <1>4, <2>1, InHand DEF Trust, NothingYet
  <2>3. Shown(chan)' = Shown(chan)
    BY <1>2 DEF Finishing, options, Shown, Splits, SplitOf
  <2>4. prep # None => Preps(prep)'
    BY <1>1, <1>2, <2>2, <2>3 DEF Preps, Alike, Same, Finishing
  <2>5. PrepHeld'
    BY <1>1, <2>4 DEF PrepHeld
  <2>6. ImageHeld'
    BY <2>1 DEF ImageHeld
  <2>7. \/ Split \/ ~splits
        \/ prep' = None /\ final' = None /\ pc' \notin {"composite", "judge"}
    BY <1>1, <1>4, <2>1, <2>2, InHand
  <2> QED
    BY <2>5, <2>6, <2>7
<1> QED
  BY <1>2, <1>3, <1>4, FinishTrust

LEMMA AgentGivesWayTrust == ASSUME Inv, Busy, Trust, AgentGivesWay PROVE Trust'
<1>1. /\ pc = "prep" /\ pc' = "prep" /\ finish' = "plain"
      /\ UNCHANGED <<disk, kind, given, tier, chan, mix, named, lin, options, why, doubt, work>>
  BY DEF AgentGivesWay, plan
<1>2. Planned' = Planned /\ Clean' = Clean /\ Mark' = Mark /\ SplitOf(chan)' = SplitOf(chan)
  BY <1>1 DEF Planned, options, Clean, Mark, disk, masters, SplitOf
<1>3. \A f : FileOf(f)' = FileOf(f)
  BY <1>1, FilesStay DEF disk
<1>4. Trusted'
  <2>1. Told' = Told
    BY <1>1, ToldStays DEF options
  <2> QED
    BY <1>1, <2>1 DEF Trust, Trusted, Idle, disk
<1>5. NothingYet' /\ Stacking' /\ PrepHeld' /\ ImageHeld'
  <2>1. NothingYet'
    BY <1>1, <1>2 DEF Trust, NothingYet, disk, masters
  <2>2. Stacking' /\ PrepHeld' /\ ImageHeld'
    BY <1>1 DEF Stacking, PrepHeld, ImageHeld
  <2> QED
    BY <2>1, <2>2
<1>6. ChannelsHeld'
  BY <1>1, <1>2, <1>3 DEF Trust, ChannelsHeld, disk, masters
<1>7. NamedHeld'
  BY <1>1, <1>2 DEF Trust, NamedHeld, Split, Unsplit, disk, options
<1> QED
  BY <1>4, <1>5, <1>6, <1>7 DEF Trust

\* A job that is over is not clean: nothing is asked of it but the directory.
LEMMA RestTrust ==
  ASSUME Rest, Trusted'
  PROVE  Trust'
<1>1. kind' = "none" /\ ~Clean'
  BY DEF Rest, Clean
<1> QED
  BY <1>1, NotClean DEF Trust, NothingYet

LEMMA PanicTrust == ASSUME Inv, Busy, Trust, Panic PROVE Trust'
<1>1. Rest /\ UNCHANGED <<disk, counts>>
  BY DEF Panic
<1>2. Told' = Told
  BY <1>1, ToldStays DEF counts, options
<1>3. CASE doubt'
  BY <1>1, <1>3, RestTrust DEF Trusted
<1>4. CASE pc = "prep" /\ finish = "agent" /\ UNCHANGED doubt
  <2>1. kind \in {"run", "refine"}
    BY <1>4 DEF Inv, Plain, TypeOK, Busy, Idle
  <2>2. kind = "run" => record = None /\ final = None
    BY <1>4 DEF Trust, NothingYet
  <2>3. Trusted'
    BY <1>1, <1>2, <1>4, <2>1, <2>2 DEF Trust, Trusted, disk
  <2> QED
    BY <1>1, <2>3, RestTrust
<1> QED
  BY <1>3, <1>4 DEF Panic

LEMMA DieTrust == ASSUME Inv, Busy, Trust, Die PROVE Trust'
<1>1. Rest /\ doubt' = TRUE
  BY DEF Die
<1> QED
  BY <1>1, RestTrust DEF Trusted

LEMMA RefineTrust ==
  ASSUME Inv, Busy, Trust, NEW p \in Preset, NEW agent \in BOOLEAN, Refine(p, agent) PROVE Trust'
<1>1. /\ kind' = "refine" /\ pc' = "prep" /\ pc = "idle"
      /\ UNCHANGED <<disk, options, doubt>>
  BY DEF Refine, Begin
<1>2. ~Clean' /\ NothingYet'
  BY <1>1 DEF Clean, NothingYet
<1>3. Told' = Told
  BY <1>1, ToldStays DEF options
<1>4. Trusted'
  BY <1>1, <1>3 DEF Trust, Trusted, Idle, disk
<1> QED
  BY <1>2, <1>4, NotClean DEF Trust

LEMMA RerunTrust ==
  ASSUME Inv, Busy, Trust, NEW p \in Preset, NEW stage \in Stage, Rerun(p, stage) PROVE Trust'
<1> DEFINE floor == TierForStage(stage)
           t == IF floor > TierOf(Baseline, p) THEN floor ELSE TierOf(Baseline, p)
<1>1. /\ pc = "idle" /\ record # None
      /\ kind' = "rerun" /\ given' = p /\ work' = p /\ tier' = t /\ finish' = "plain"
      /\ UNCHANGED <<disk, doubt, options>>
  BY DEF Rerun, Begin
<1>2. /\ t = C => pc' = "stack" /\ got' = {}
      /\ t # C => /\ FromDisk # Empty /\ chan' = FromDisk
                  /\ \/ t = A /\ prep # None /\ lin' = prep /\ pc' = "composite"
                     \/ pc' = "prep"
  BY DEF Rerun, Restack
<1>3. /\ TierOf(Baseline, p) <= t /\ t \in {A, B, C}
  BY DEF TierForStage, TierOf
<1> HIDE DEF t
<1>4. NothingYet' /\ Trusted' /\ NamedHeld'
  BY <1>1, <1>2, <1>3 DEF NothingYet, Trusted, NamedHeld, Idle
<1>5. CASE t = C
  <2>1. Stacking' /\ ChannelsHeld' /\ PrepHeld' /\ ImageHeld'
    BY <1>2, <1>5 DEF Stacking, ChannelsHeld, PrepHeld, ImageHeld
  <2> QED
    BY <1>4, <2>1 DEF Trust
<1>6. CASE t # C
  <2>1. Stacking' /\ ImageHeld'
    BY <1>1, <1>2, <1>6 DEF Stacking, ImageHeld
  <2> SUFFICES ASSUME Clean' PROVE ChannelsHeld' /\ PrepHeld'
    BY <1>4, <2>1 DEF Trust, ChannelsHeld, PrepHeld
  <2>2. ~doubt /\ Told
    BY <1>1, <1>6 DEF Clean, Trust, Trusted, Idle
  <2>3. p.stack = manifest.stack /\ (t = A => p.prep = manifest.prep)
    BY <1>3, <1>6, <2>2 DEF TierOf, Baseline, Told
  <2>4. Mark' = [knob |-> manifest.stack, all |-> FALSE]
    BY <1>1, <2>3 DEF Mark
  <2>5. \A f : FileOf(f)' = FileOf(f)
    BY <1>1, FilesStay DEF disk
  <2>6. DOMAIN FromDisk # {} /\ \A k \in DOMAIN FromDisk : FromDisk[k] = FileOf(k)
    <3>1. DOMAIN FromDisk = {} => FromDisk = Empty
      BY DEF FromDisk, Empty
    <3> QED
      BY <1>2, <1>6, <3>1 DEF FromDisk
  <2>7. \A k \in DOMAIN FromDisk : FromDisk[k].stamp = [knob |-> manifest.stack, all |-> FALSE]
    BY <2>2 DEF Told
  <2>8. ChannelsHeld'
    BY <1>1, <1>2, <1>6, <2>4, <2>5, <2>6, <2>7 DEF ChannelsHeld, Same
  <2>9. pc' = "composite" => lin' = prep' /\ Preps(prep)'
    <3> SUFFICES ASSUME pc' = "composite" PROVE lin' = prep' /\ Preps(prep)'
      OBVIOUS
    <3>1. t = A /\ prep # None /\ lin' = prep /\ prep' = prep /\ chan' = FromDisk
      BY <1>1, <1>2, <1>6 DEF disk
    <3>2. Alike(prep.shown, Shown(FromDisk)) /\ prep.prep = manifest.prep /\ ~prep.torn
      BY <2>2, <3>1 DEF Told
    <3>3. Shown(chan)' = Shown(FromDisk)
      BY <1>1, <3>1 DEF options, Shown, Splits, SplitOf
    <3>4. Preps(prep)'
      BY <1>1, <2>3, <3>1, <3>2, <3>3 DEF Preps, Alike, Same
    <3> QED
      BY <3>1, <3>4
  <2>10. PrepHeld'
    BY <1>2, <1>6, <2>9 DEF PrepHeld
  <2> QED
    BY <2>8, <2>10
<1> QED
  BY <1>5, <1>6

\* What a clean job records is what it composited, with or without the channels
\* separated from it.
LEMMA RecordedFound ==
  ASSUME Inv, Trust, Clean, pc = "record", kind \in {"run", "rerun"}, NEW R \in SUBSET Key,
         IF kind = "run" THEN R = named ELSE R = DOMAIN chan
  PROVE  LET F == [f \in {f \in R : FileOf(f).stamp # None} |-> FileOf(f)]
         IN  /\ F \in Channels /\ Alike(Shown(F), Shown(chan))
             /\ \A k \in DOMAIN F : F[k].stamp = Mark
<1> DEFINE D == {f \in R : FileOf(f).stamp # None}
           F == [f \in D |-> FileOf(f)]
<1>1. F \in Channels /\ chan \in Channels
  <2>1. \A f \in D : f \in Key /\ FileOf(f) \in Source
    BY FileIs DEF Inv
  <2>2. F \in [D -> Source] /\ D \in SUBSET Key
    BY <2>1
  <2>3. F \in Channels
    BY <2>2, ChannelsIntro
  <2> QED
    BY <2>3 DEF Inv, TypeOK
<1>2. /\ DOMAIN chan # {} /\ \A k \in DOMAIN chan : Same(chan[k], FileOf(k)) /\ chan[k].stamp = Mark
      /\ kind = "run" => /\ DOMAIN chan \subseteq Planned
                         /\ \A k \in Key \ DOMAIN chan :
                              master[k] = None /\ aligned[k] = None /\ combined[k] = None
  BY DEF Trust, ChannelsHeld
<1>3. Mark # None
  BY MarkIs
<1>4. \A k \in DOMAIN chan : FileOf(k).stamp = Mark /\ Same(FileOf(k), chan[k])
  BY <1>2 DEF Same
<1>5. CASE R \cap DOMAIN chan = DOMAIN chan /\ \A f \in R \ DOMAIN chan : FileOf(f).stamp = None
  <2>1. D = DOMAIN chan
    BY <1>3, <1>4, <1>5
  <2>2. Alike(F, chan) /\ \A k \in DOMAIN F : F[k].stamp = Mark
    BY <1>4, <2>1 DEF Alike
  <2>3. Alike(Shown(F), Shown(chan))
    BY <1>1, <2>2, AlikeShown
  <2> QED
    BY <1>1, <2>2, <2>3
<1>6. CASE kind = "run" /\ Split
  <2>1. DOMAIN chan = {"RGB"} /\ R = {"RGB"} \cup Separated
    BY <1>2, <1>6 DEF Split, Planned
  <2>2. Splits(chan)
    BY <1>6, <2>1 DEF Split, Splits
  <2>3. SplitOf(chan) \in SynFile /\ SplitOf(chan) # None /\ SplitOf(chan).stamp = Mark
    BY <1>1, <1>2, <2>1, <2>2, SplitIs
  <2>4. ASSUME NEW k \in Separated PROVE FileOf(k) = SplitOf(chan)
    <3>1. k \in Key /\ k # "RGB"
      BY PlannedKeys DEF Separated
    <3>2. master[k] = None /\ aligned[k] = None /\ combined[k] = None /\ syn[k] = SplitOf(chan)
      BY <1>2, <1>6, <2>1, <3>1 DEF Split
    <3> QED
      BY <2>3, <3>2 DEF FileOf
  <2>5. D = {"RGB"} \cup Separated
    BY <1>3, <1>4, <2>1, <2>3, <2>4
  <2>6. DOMAIN Shown(chan) = {"RGB"} \cup Separated
    BY <2>1, <2>2 DEF Shown
  <2>7. ASSUME NEW k \in D PROVE Same(F[k], Shown(chan)[k]) /\ F[k].stamp = Mark
    <3>1. CASE k \in Separated
      <4>1. F[k] = SplitOf(chan) /\ Shown(chan)[k] = SplitOf(chan)
        BY <2>2, <2>4, <2>6, <3>1, <2>7, <2>5 DEF Shown
      <4> QED
        BY <2>3, <4>1 DEF Same
    <3>2. CASE k \notin Separated
      <4>1. k = "RGB" /\ k \in DOMAIN chan
        BY <2>1, <2>5, <2>7, <3>2
      <4>2. F[k] = FileOf(k) /\ Shown(chan)[k] = chan[k]
        BY <2>6, <2>7, <3>2, <4>1 DEF Shown
      <4> QED
        BY <1>4, <4>1, <4>2
    <3> QED
      BY <3>1, <3>2
  <2>8. Alike(F, Shown(chan))
    BY <2>5, <2>6, <2>7 DEF Alike
  <2>9. Alike(Shown(F), Shown(Shown(chan))) /\ Shown(Shown(chan)) = Shown(chan)
    BY <1>1, <2>8, ShownIs, ShownTwice, AlikeShown
  <2> QED
    BY <1>1, <2>7, <2>9
<1>7. CASE kind = "run" /\ Unsplit
  <2>1. R = Planned /\ DOMAIN chan \subseteq R
    BY <1>2, <1>7 DEF Unsplit
  <2>2. ASSUME NEW f \in R \ DOMAIN chan PROVE FileOf(f).stamp = None
    <3>1. f \in Key /\ master[f] = None /\ aligned[f] = None /\ combined[f] = None
      BY <1>2, <1>7, <2>2
    <3>2. f \in Separated => syn[f] = None
      BY <1>7 DEF Unsplit
    <3>3. FileOf(f) = [from |-> "master", trim |-> FALSE, stamp |-> None]
      BY <3>1, <3>2 DEF FileOf
    <3> QED
      BY <3>3
  <2> QED
    BY <1>5, <2>1, <2>2
<1>8. CASE kind = "rerun"
  BY <1>5, <1>8
<1>9. kind = "run" => Split \/ Unsplit
  BY DEF Trust, NamedHeld
<1> QED
  BY <1>6, <1>7, <1>8, <1>9

LEMMA RecordTrust == ASSUME Inv, Inv', Busy, Trust, Record PROVE Trust'
<1>1. /\ Rest /\ UNCHANGED <<masters, syn, prep, final, options>>
      /\ pc = "record" \/ (pc = "stack" /\ kind = "run" /\ todo = {} /\ got = {})
      /\ record' = IF kind = "rerun" THEN Kept ELSE named
  BY DEF Record
<1> SUFFICES ASSUME ~doubt' PROVE Told'
  BY <1>1, RestTrust DEF Trusted
<1>2. /\ ~why /\ kind # "refine" /\ DOMAIN chan \subseteq record' /\ manifest' = given
      /\ ~(kind = "rerun" /\ tier = C /\ \E k \in Key : combined[k] # None)
      /\ (kind = "rerun" /\ tier = C) \/ ~doubt
  BY DEF Record, Checkpoint
<1>3. kind \in {"run", "rerun"} /\ Clean
  <2>1. kind \in {"run", "rerun"}
    BY <1>1, <1>2 DEF Inv, TypeOK, Busy, Idle
  <2> QED
    BY <1>2, <2>1 DEF Clean
<1>4. given # None /\ named \subseteq Key
  BY DEF Inv, TypeOK
<1>5. \A f : FileOf(f)' = FileOf(f)
  BY <1>1, FilesStay
<1> DEFINE F == [f \in {f \in record' : FileOf(f).stamp # None} |-> FileOf(f)]
<1>6. FromDisk' = F
  BY <1>5 DEF FromDisk
<1>7. CASE pc = "stack"
  <2>1. /\ \A k \in Key : master[k] = None /\ aligned[k] = None /\ combined[k] = None
        /\ \A k \in Separated : syn[k] = None
        /\ prep = None /\ final = None
    BY <1>1, <1>7 DEF Trust, NothingYet
  <2>2. record' = named /\ record' \subseteq Key
    BY <1>1, <1>4, <1>7
  <2>3. \A f \in Key : FileOf(f).stamp = None
    BY <2>1 DEF FileOf
  <2>4. DOMAIN FromDisk' = {}
    BY <1>6, <2>2, <2>3
  <2> QED
    BY <1>1, <1>2, <1>4, <2>1, <2>2, <2>4 DEF Told
<1>8. CASE pc = "record"
  <2>1. /\ DOMAIN chan # {} /\ \A k \in DOMAIN chan : chan[k].stamp = Mark
        /\ prep # None => Preps(prep)
        /\ final # None => Shows(final)
    BY <1>3, <1>8 DEF Trust, ChannelsHeld, PrepHeld, ImageHeld
  <2>2. chan \in Channels /\ DOMAIN chan \subseteq Key
    BY ChannelsElim DEF Inv, TypeOK
  <2>3. IF kind = "run" THEN record' = named ELSE record' = DOMAIN chan
    BY <1>1, <1>2, <1>3, <2>1 DEF Kept
  <2>4. record' \in SUBSET Key
    BY <1>3, <1>4, <2>2, <2>3
  <2>5. F \in Channels /\ Alike(Shown(F), Shown(chan)) /\ \A k \in DOMAIN F : F[k].stamp = Mark
    BY <1>3, <1>8, <2>3, <2>4, RecordedFound
  <2> HIDE DEF F
  <2>6. Alike(Shown(chan), Shown(F))
    BY <2>5, AlikeSame, AlikeTrans
  <2>7. Shown(FromDisk)' = Shown(F)
    BY <1>1, <1>6 DEF options, Shown, Splits, SplitOf
  <2>8. \A k \in DOMAIN FromDisk' : FromDisk'[k].stamp = [knob |-> manifest'.stack, all |-> FALSE]
    BY <1>2, <1>6, <2>5 DEF Mark
  <2>9. prep # None => Alike(prep.shown, Shown(F)) /\ prep.prep = given.prep /\ ~prep.torn
    BY <2>1, <2>6, AlikeTrans DEF Preps
  <2>10. final # None => /\ Alike(final.shown, Shown(F)) /\ (prep # None => final.shown = prep.shown)
                         /\ final.prep = given.prep /\ final.screen = given.screen /\ final.look = given.look
    BY <2>1, <2>6, AlikeTrans DEF Shows
  <2>11. ASSUME final # None, NEW k \in DOMAIN final.shown PROVE final.shown[k].stamp = Mark
    <3>1. \A q \in DOMAIN Shown(chan) : Shown(chan)[q].stamp = Mark
      BY <2>1, <2>2, ShownMarks
    <3>2. Alike(final.shown, Shown(chan))
      BY <2>1, <2>11 DEF Shows
    <3> QED
      BY <2>11, <3>1, <3>2 DEF Alike, Same
  <2>12. final # None => Tells'
    BY <1>1, <1>2, <2>10, <2>11 DEF Tells, Mark
  <2>13. prep' # None => Alike(prep.shown, Shown(FromDisk))' /\ prep'.prep = manifest'.prep /\ ~prep'.torn
    BY <1>1, <1>2, <2>7, <2>9 DEF Alike, Same
  <2>14. final' # None => /\ Tells' /\ Alike(final.shown, Shown(FromDisk))'
                          /\ prep' # None => final'.shown = prep'.shown
    BY <1>1, <2>7, <2>10, <2>12 DEF Alike, Same
  <2> QED
    BY <1>2, <1>4, <2>4, <2>8, <2>13, <2>14 DEF Told
<1> QED
  BY <1>1, <1>7, <1>8

LEMMA StutterTrust == ASSUME Trust, UNCHANGED vars PROVE Trust'
<1>1. \A f : FileOf(f)' = FileOf(f)
  BY FilesStay DEF vars, disk
<1>2. Told' = Told
  BY ToldStays DEF vars, counts, options
<1>3. Clean' = Clean /\ Mark' = Mark /\ SplitOf(chan)' = SplitOf(chan) /\ Planned' = Planned
  BY DEF vars, disk, masters, counts, options, Clean, Mark, SplitOf, Planned
<1>4. Shown(chan)' = Shown(chan)
  BY DEF vars, counts, options, Shown, Splits, SplitOf
<1>5. NothingYet' /\ Stacking'
  BY <1>3 DEF Trust, vars, disk, masters, stacks, NothingYet, Stacking
<1>6. Split' = Split /\ Unsplit' = Unsplit
  BY <1>3 DEF Split, Unsplit, vars, disk, counts, options
<1>7. NamedHeld'
  BY <1>3, <1>6 DEF Trust, NamedHeld, vars, disk, counts, options
<1>8. PrepHeld' /\ ImageHeld'
  BY <1>3, <1>4 DEF Trust, PrepHeld, ImageHeld, Preps, Shows, Alike, Same, vars, disk
<1>9. ChannelsHeld' /\ Trusted'
  BY <1>1, <1>2, <1>3 DEF Trust, ChannelsHeld, Trusted, Idle, vars, disk, masters
<1> QED
  BY <1>5, <1>7, <1>8, <1>9 DEF Trust

LEMMA BusyStep == Busy /\ [Next]_vars => Busy'
<1> SUFFICES ASSUME Busy, [Next]_vars PROVE Busy'
  OBVIOUS
<1>1. CASE /\ kind' = kind /\ pc # "idle"
           /\ kind = "refine" => pc' \notin {"stack", "crop", "edge"} \/ pc' = pc
  BY <1>1 DEF Busy, Idle
<1>2. CASE pc' = "idle" \/ (kind' = "rerun" \/ (kind' = "refine" /\ pc' = "prep"))
  BY <1>2 DEF Busy, Idle
<1>3. CASE UNCHANGED vars
  BY <1>3 DEF Busy, Idle, vars
<1>4. CASE Record \/ Die \/ Panic
  BY <1>2, <1>4 DEF Record, Die, Panic, Rest
<1>5. CASE \/ \E p \in Preset, stage \in Stage : Rerun(p, stage)
           \/ \E p \in {p \in Preset : p.stack = 0}, agent \in BOOLEAN : Refine(p, agent)
  BY <1>2, <1>5 DEF Rerun, Refine, Begin
<1>6. CASE \/ \E f \in Planned : Stack(f)
           \/ Align \/ Crop \/ EdgeCrop
  BY <1>1, <1>6 DEF Stack, Align, Crop, EdgeCrop, plan, Busy
<1>7. CASE \/ Separate \/ MakePrep \/ Composite \/ FinishFails \/ AgentGivesWay
  BY <1>1, <1>7 DEF Separate, MakePrep, Composite, FinishFails, StepFails, AgentGivesWay, plan
<1>8. CASE \/ CheckStars \/ JudgeStars \/ PassFails
  BY <1>1, <1>8 DEF CheckStars, JudgeStars, PassFails, Promote, StarPass, plan
<1> QED
  BY <1>3, <1>4, <1>5, <1>6, <1>7, <1>8 DEF Next

LEMMA StepTrust == ASSUME Inv, Inv', Busy, Trust, [Next]_vars PROVE Trust'
<1>1. ASSUME NEW f \in Planned, Stack(f) PROVE Trust'
  BY <1>1, StackTrust
<1>2. ASSUME NEW p \in Preset, NEW stage \in Stage, Rerun(p, stage) PROVE Trust'
  BY <1>2, RerunTrust
<1>3. ASSUME NEW p \in Preset, NEW agent \in BOOLEAN, Refine(p, agent) PROVE Trust'
  BY <1>3, RefineTrust
<1> QED
  BY <1>1, <1>2, <1>3, AlignTrust, CropTrust, EdgeCropTrust, SeparateTrust, MakePrepTrust, CompositeTrust,
     CheckStarsTrust, JudgeStarsTrust, RecordTrust, FinishFailsTrust, PassFailsTrust, AgentGivesWayTrust,
     PanicTrust, DieTrust, StutterTrust DEF Next


-----------------------------------------------------------------------------
(* Theorems.                                                               *)

\* The files in a run directory, what is in memory of them and the job at work
\* have their types, after any jobs with any edits and failures (RerunFromStage,
\* RefineExistingRun).
THEOREM TypeCorrect == Spec => []TypeOK
<1>1. Inv => TypeOK
  BY DEF Inv
<1> QED
  BY <1>1, InitInv, StepInv, PTL DEF Spec

\* A rerun that reaches its record shows the preset it was given in every stage
\* it remade, whatever earlier jobs left in the directory, but for an OIII that
\* stands in for an earlier B (RerunFromStage).
THEOREM RerunsShow == Spec => []RerunShows
<1>1. Inv => RerunShows
  BY DEF Inv
<1> QED
  BY <1>1, InitInv, StepInv, PTL DEF Spec

\* Unless a job did what the checkpoint does not tell, the image and the files
\* under it are those the checkpoint says, but for the margins that only the first
\* image had cut: so re-entry at the cheapest tier shows what processing everything
\* again would (tierOf, RerunFromStage, reconstructChannelsFromDisk).
THEOREM CheckpointsTell == Spec => []CheckpointTells
<1>1. Init => Inv /\ Trust /\ Busy
  BY InitInv, InitTrust
<1>2. (Inv /\ Trust /\ Busy) /\ [Next]_vars => (Inv /\ Trust /\ Busy)'
  BY StepInv, BusyStep, StepTrust
<1>3. Inv /\ Trust => CheckpointTells
  BY TrustTells
<1> QED
  BY <1>1, <1>2, <1>3, PTL DEF Spec
=============================================================================
