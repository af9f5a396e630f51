---------------------------- MODULE FullRunProofs ----------------------------
(***************************************************************************)
(* SamplesComplete and MeasuredAsLabelled for any LOOP_COUNT and any       *)
(* numbers of power failures and runs of reset.sh.                         *)
(***************************************************************************)
EXTENDS FullRun, TLAPS

-----------------------------------------------------------------------------
\* The inductive invariant.

\* The markers when the script comes to stage s, and when it has them all.
Before(s) ==
    IF s = "pmem" THEN {"setup"}
    ELSE IF s = "dram4K" THEN {"setup", "pmem"}
    ELSE IF s = "dram2M" THEN {"setup", "pmem", "dram4K"}
    ELSE {"setup", "pmem", "dram4K", "dram2M"}

AllMarkers == {"setup", "pmem", "dram4K", "dram2M", "dram1G"}

\* The markers tell where the script is: they are set in its order, by whoever is at
\* the stage they belong to.
MarkersInOrder ==
    /\ markers = {} \/ markers = AllMarkers \/ \E s \in StageSet : markers = Before(s)
    /\ pc \in {"setup", "enable", "mark"} => markers = {}
    /\ pc = "leave" => markers = Before("pmem")
    /\ pc \in {"run", "touch"} => markers = Before(stage)
    /\ pc = "reboot" => markers = Before(stage) \cup {stage}
    /\ pc = "idle" /\ enabled =>
          markers = AllMarkers \/ (markers = Before("pmem") /\ ~prototype)

\* The stage of a configuration, and which of the stage's loops is its own.
StageOf(c) == IF c \in {"pmem4K", "pmem2M", "pmem1G"} THEN "pmem" ELSE c
Pos(c) == IF c = "pmem2M" THEN 1 ELSE IF c = "pmem1G" THEN 2 ELSE 0

\* Of the first i samples of a stage, those that loop k takes.
Share(i, k) ==
    IF i <= k * Loops THEN 0 ELSE IF i <= k * Loops + Loops THEN i - k * Loops ELSE Loops

\* The samples of c that the running process has taken.
Taken(c) == IF pc \in {"run", "touch"} /\ stage = StageOf(c) THEN Share(iter, Pos(c)) ELSE 0

\* Every crash makes the script repeat the loops of at most one stage.
Counted ==
    /\ pc = "run" => iter < Total(stage)
    /\ pc = "touch" => iter = Total(stage)
    /\ \A c \in ConfigSet :
         /\ markers = {} => count[c] = 0
         /\ StageOf(c) \notin markers =>
              Taken(c) <= count[c] /\ count[c] <= Loops * crashes + Taken(c)
         /\ StageOf(c) \in markers =>
              Loops <= count[c] /\ count[c] <= Loops * crashes + Loops

\* The pools set aside are those of the stage, which lets go of them at its end.
PoolsOfStage ==
    pools = IF pc \in {"run", "touch", "reboot"} THEN PoolOf(stage) ELSE {}

\* The kernel that runs a stage is the one the stage before it left, unless there was
\* a crash; it emulates pmem for the pmem stage only, unless reset.sh kept it.
KernelOfStage ==
    /\ crashes = 0 /\ pc \in {"down", "dispatch", "run"} =>
         /\ markers = Before("dram2M") => HugePageSize(cmdline) = "2M"
         /\ markers = Before("dram1G") => HugePageSize(cmdline) = "1G"
         /\ markers = Before("pmem") /\ prototype => Emulated(cmdline)
    /\ resets = 0 =>
         /\ ~Emulated(backup)
         /\ Emulated(cmdline) =>
              \/ markers = Before("pmem")
              \/ pc = "reboot" /\ stage = "pmem"

SamplesLabelled ==
    /\ markers = {} => samples = {}
    /\ \A m \in samples :
         /\ m.pools = PoolOf(m.cfg)
         /\ crashes = 0 =>
              /\ m.cfg = "dram1G" => m.hp = "1G"
              /\ m.cfg = "dram2M" => m.hp = "2M"
              /\ StageOf(m.cfg) = "pmem" /\ prototype => m.emulated
         /\ StageOf(m.cfg) # "pmem" /\ resets = 0 => ~m.emulated

CountInv == TypeOK /\ MarkersInOrder /\ Counted
LabelInv == TypeOK /\ MarkersInOrder /\ PoolsOfStage /\ KernelOfStage /\ SamplesLabelled

-----------------------------------------------------------------------------
\* The script's lists.

LEMMA StageSetIs == StageSet = {"pmem", "dram4K", "dram2M", "dram1G"}
<1>1. DOMAIN Stages = {1, 2, 3, 4}
  BY DEF Stages
<1>2. Stages[1] = "pmem" /\ Stages[2] = "dram4K" /\ Stages[3] = "dram2M" /\ Stages[4] = "dram1G"
  BY DEF Stages
<1> QED
  BY <1>1, <1>2 DEF StageSet, Range

LEMMA ConfigsIs ==
    /\ Range(Configs("pmem")) = {"pmem4K", "pmem2M", "pmem1G"}
    /\ \A s \in StageSet : s # "pmem" => Range(Configs(s)) = {s}
    /\ \A s \in StageSet : \A c \in Range(Configs(s)) : c \in ConfigSet /\ StageOf(c) = s
<1>1. Range(Configs("pmem")) = {"pmem4K", "pmem2M", "pmem1G"}
  <2> DEFINE q == <<"pmem4K", "pmem2M", "pmem1G">>
  <2>1. DOMAIN q = {1, 2, 3} /\ q[1] = "pmem4K" /\ q[2] = "pmem2M" /\ q[3] = "pmem1G"
    OBVIOUS
  <2>2. Configs("pmem") = q
    BY DEF Configs
  <2> HIDE DEF q
  <2> QED
    BY <2>1, <2>2 DEF Range
<1>2. ASSUME NEW s \in StageSet, s # "pmem"
      PROVE  Range(Configs(s)) = {s}
  <2> DEFINE q == <<s>>
  <2>1. DOMAIN q = {1} /\ q[1] = s
    OBVIOUS
  <2>2. Configs(s) = q
    BY <1>2 DEF Configs
  <2> HIDE DEF q
  <2> QED
    BY <2>1, <2>2 DEF Range
<1>3. ASSUME NEW s \in StageSet, NEW c \in Range(Configs(s))
      PROVE  c \in ConfigSet /\ StageOf(c) = s
  <2>1. CASE s = "pmem"
    BY <1>1, <1>3, <2>1 DEF ConfigSet, StageOf
  <2>2. CASE s # "pmem"
    BY <1>2, <1>3, <2>2, StageSetIs DEF ConfigSet, StageOf
  <2> QED
    BY <2>1, <2>2
<1> QED
  BY <1>1, <1>2, <1>3

LEMMA TotalIs ==
    ASSUME TypeOK
    PROVE  /\ Loops \in Nat \ {0}
           /\ Total("pmem") = 3 * Loops
           /\ \A s \in StageSet : s # "pmem" => Total(s) = Loops
<1>1. Loops \in Nat \ {0}
  BY LoopCountAssumption DEF Loops, TypeOK
<1>2. Len(Configs("pmem")) = 3 /\ \A s \in StageSet : s # "pmem" => Len(Configs(s)) = 1
  BY DEF Configs
<1>3. \A s : Total(s) = Loops * Len(Configs(s))
  BY DEF Total
<1> DEFINE L == Loops
<1>4. L * 1 = L /\ L * 3 = 3 * L
  BY <1>1
<1> HIDE DEF L
<1>5. Total("pmem") = 3 * L /\ \A s \in StageSet : s # "pmem" => Total(s) = L
  BY <1>2, <1>3, <1>4 DEF L
<1> QED
  BY <1>1, <1>5 DEF L

\* The configuration that sample i of stage s belongs to is the one whose share grows.
LEMMA ConfigAt ==
    ASSUME TypeOK, NEW s \in StageSet, NEW i \in Nat, i < Total(s)
    PROVE  /\ Configs(s)[1 + (i \div Loops)] \in ConfigSet
           /\ StageOf(Configs(s)[1 + (i \div Loops)]) = s
           /\ Pos(Configs(s)[1 + (i \div Loops)]) = i \div Loops
           /\ i \div Loops = IF i < Loops THEN 0 ELSE IF i < 2 * Loops THEN 1 ELSE 2
<1>0. Loops \in Nat \ {0} /\ i < 3 * Loops
  BY TotalIs, StageSetIs
<1>1. i \div Loops = IF i < Loops THEN 0 ELSE IF i < 2 * Loops THEN 1 ELSE 2
  <2> DEFINE L == Loops
  <2>1. L \in Nat \ {0} /\ i < 3 * L
    BY <1>0
  <2> HIDE DEF L
  <2>2. i \div L = IF i < L THEN 0 ELSE IF i < 2 * L THEN 1 ELSE 2
    BY <2>1
  <2> QED
    BY <2>2 DEF L
<1> DEFINE d == i \div Loops
<1>2. CASE s = "pmem"
  <2>1. d \in {0, 1, 2}
    BY <1>1
  <2> HIDE DEF d
  <2>2. /\ d = 0 => Configs(s)[1 + d] = "pmem4K"
        /\ d = 1 => Configs(s)[1 + d] = "pmem2M"
        /\ d = 2 => Configs(s)[1 + d] = "pmem1G"
    BY <1>2 DEF Configs
  <2>3. /\ Configs(s)[1 + d] \in ConfigSet /\ StageOf(Configs(s)[1 + d]) = s
        /\ Pos(Configs(s)[1 + d]) = d
    BY <1>2, <2>1, <2>2 DEF StageOf, Pos, ConfigSet
  <2> QED
    BY <1>1, <2>3 DEF d
<1>3. CASE s # "pmem"
  <2>1. i < Loops
    BY <1>3, TotalIs
  <2>2. d = 0
    BY <1>1, <2>1
  <2> HIDE DEF d
  <2>3. Configs(s)[1 + d] = s
    BY <1>3, <2>2 DEF Configs
  <2>4. /\ Configs(s)[1 + d] \in ConfigSet /\ StageOf(Configs(s)[1 + d]) = s
        /\ Pos(Configs(s)[1 + d]) = d
    BY <1>3, <2>2, <2>3, StageSetIs DEF StageOf, Pos, ConfigSet
  <2> QED
    BY <1>1, <2>4 DEF d
<1> QED
  BY <1>2, <1>3

\* The kernels that kexec starts: the last default_hugepagesz counts.
LEMMA KernelOptions ==
    ASSUME NEW b \in Seq(Options)
    PROVE  /\ HugePageSize(Append(b, "hp1G")) = "1G" /\ HugePageSize(Append(b, "hp2M")) = "2M"
           /\ HugePageSize(b) \in {"2M", "1G"}
           /\ Emulated(b) \in BOOLEAN /\ ~Emulated(<<>>)
           /\ Emulated(Append(b, "memmap"))
           /\ Emulated(Append(b, "hp1G")) <=> Emulated(b)
           /\ Emulated(Append(b, "hp2M")) <=> Emulated(b)
<1>1. \A q \in Seq(Options) : Emulated(q) <=> \E i \in 1 .. Len(q) : q[i] = "memmap"
  BY DEF Emulated, Range
<1>2. HugePageSize(Append(b, "hp1G")) = "1G" /\ HugePageSize(Append(b, "hp2M")) = "2M"
  BY DEF HugePageSize, Options
<1>3. /\ Append(b, "memmap") \in Seq(Options) /\ Append(b, "hp1G") \in Seq(Options)
      /\ Append(b, "hp2M") \in Seq(Options) /\ <<>> \in Seq(Options)
  BY DEF Options
<1>4. ASSUME NEW o \in Options
      PROVE  Emulated(Append(b, o)) <=> Emulated(b) \/ o = "memmap"
  <2> DEFINE q == Append(b, o)
  <2>1. /\ q \in Seq(Options) /\ Len(b) \in Nat /\ Len(q) = Len(b) + 1 /\ q[Len(b) + 1] = o
        /\ \A i \in 1 .. Len(b) : q[i] = b[i]
    OBVIOUS
  <2> HIDE DEF q
  <2>2. Emulated(q) <=> Emulated(b) \/ o = "memmap"
    BY <1>1, <2>1
  <2> QED
    BY <2>2 DEF q
<1>5. ~Emulated(<<>>) /\ Emulated(b) \in BOOLEAN /\ HugePageSize(b) \in {"2M", "1G"}
  <2>1. ~Emulated(<<>>)
    BY DEF Emulated, Range
  <2>2. Emulated(b) \in BOOLEAN
    BY SMT DEF Emulated
  <2>3. HugePageSize(b) \in {"2M", "1G"}
    BY Zenon DEF HugePageSize
  <2> QED
    BY <2>1, <2>2, <2>3
<1>6. "memmap" \in Options /\ "hp1G" \in Options /\ "hp2M" \in Options
  BY DEF Options
<1> QED
  BY <1>2, <1>4, <1>5, <1>6

LEMMA PoolOfIs ==
    /\ PoolOf("dram2M") = {"2M"} /\ PoolOf("dram1G") = {"1G"}
    /\ \A c : c # "dram2M" /\ c # "dram1G" => PoolOf(c) = {}
BY Zenon DEF PoolOf

\* Where Dispatch leads.
LEMMA DispatchIs ==
    ASSUME TypeOK, MarkersInOrder, Dispatch
    PROVE  /\ UNCHANGED <<prototype, markers, backup, count, samples, cmdline, crashes, resets>>
           /\ \/ /\ markers = {} /\ pc' = "setup"
                 /\ UNCHANGED <<enabled, pools, stage, iter>>
              \/ /\ stage' \in StageSet /\ markers = Before(stage')
                 /\ iter' = 0 /\ pools' = pools \cup PoolOf(stage')
                 /\ pc' = "run" /\ UNCHANGED enabled
              \/ /\ markers = AllMarkers /\ enabled' = FALSE /\ pc' = "idle"
                 /\ UNCHANGED <<pools, stage, iter>>
<1>0. /\ Len(Stages) = 4 /\ Stages[1] = "pmem" /\ Stages[2] = "dram4K"
      /\ Stages[3] = "dram2M" /\ Stages[4] = "dram1G"
  BY DEF Stages
<1>1. UNCHANGED <<prototype, markers, backup, count, samples, cmdline, crashes, resets>>
  BY DEF Dispatch
<1>2. CASE /\ "setup" \notin markers
           /\ pc' = "setup"
           /\ UNCHANGED <<enabled, pools, stage, iter>>
  <2>1. markers = {}
    BY <1>2, StageSetIs DEF MarkersInOrder, Before, AllMarkers
  <2> QED
    BY <1>1, <1>2, <2>1
<1>3. ASSUME "setup" \in markers, NEW i \in 1 .. Len(Stages), NextStage(i), stage' = Stages[i]
      PROVE  stage' \in StageSet /\ markers = Before(stage')
  <2>1. i = 1 \/ i = 2 \/ i = 3 \/ i = 4
    BY <1>0, <1>3
  <2>2. markers = AllMarkers \/ \E s \in StageSet : markers = Before(s)
    BY <1>3 DEF MarkersInOrder
  <2>3. /\ stage' = "pmem" => "pmem" \notin markers
        /\ stage' = "dram4K" => "dram4K" \notin markers /\ "pmem" \in markers
        /\ stage' = "dram2M" => "dram2M" \notin markers /\ "dram4K" \in markers
        /\ stage' = "dram1G" => "dram1G" \notin markers /\ "dram2M" \in markers
    <3>1. stage' \notin markers
      BY <1>3 DEF NextStage
    <3>2. \A j \in 1 .. i - 1 : Stages[j] \in markers
      BY <1>3 DEF NextStage
    <3> QED
      BY <1>0, <1>3, <2>1, <3>1, <3>2
  <2>4. stage' \in StageSet
    BY <1>0, <1>3, <2>1, StageSetIs
  <2> QED
    BY <2>2, <2>3, <2>4, StageSetIs DEF Before, AllMarkers
<1>4. CASE /\ "setup" \in markers
           /\ \E i \in 1 .. Len(Stages) : NextStage(i) /\ stage' = Stages[i]
           /\ iter' = 0
           /\ pools' = pools \cup (CASE stage' = "dram2M" -> {"2M"}
                                    [] stage' = "dram1G" -> {"1G"}
                                    [] OTHER -> {})
           /\ pc' = "run"
           /\ UNCHANGED enabled
  <2>1. pools' = pools \cup PoolOf(stage')
    BY <1>4, Zenon DEF PoolOf
  <2>2. stage' \in StageSet /\ markers = Before(stage')
    BY <1>3, <1>4
  <2> QED
    BY <1>1, <1>4, <2>1, <2>2
<1>5. CASE /\ {"setup"} \cup StageSet \subseteq markers
           /\ enabled' = FALSE
           /\ pc' = "idle"
           /\ UNCHANGED <<pools, stage, iter>>
  <2>1. markers = AllMarkers
    BY <1>5, StageSetIs DEF MarkersInOrder, Before, AllMarkers
  <2> QED
    BY <1>1, <1>5, <2>1
<1> QED
  BY <1>2, <1>4, <1>5, Zenon DEF Dispatch

LEMMA TypeStep ==
    ASSUME TypeOK, MarkersInOrder, [Next]_vars
    PROVE  TypeOK'
<1>0. ASSUME Dispatch
      PROVE  /\ enabled' = enabled \/ enabled' = FALSE
             /\ stage' = stage \/ stage' \in StageSet
             /\ iter' = iter \/ iter' = 0
             /\ pc' \in {"setup", "run", "idle"}
             /\ pools' = pools \/ pools' = pools \cup PoolOf(stage')
  BY <1>0, DispatchIs, Zenon
<1> USE DEF TypeOK
<1>1. CASE Start
  BY <1>1 DEF Start, disk
<1>2. CASE Boot
  BY <1>2 DEF Boot, disk
<1>3. CASE Crash
  BY <1>3, BoundsAssumption DEF Crash, disk
<1>4. CASE Reset
  <2>1. resets' \in 0 .. MaxResets
    BY <1>4, BoundsAssumption DEF Reset
  <2>2. count' \in [ConfigSet -> Nat]
    BY <1>4 DEF Reset
  <2>3. /\ samples' = {} /\ markers' = {} /\ pools' = {} /\ pc' = "idle" /\ enabled' = FALSE
        /\ UNCHANGED <<prototype, byUnit, backup, cmdline, stage, iter, crashes>>
    BY <1>4 DEF Reset
  <2> QED
    BY <2>1, <2>2, <2>3
<1>5. CASE Restart
  BY <1>5 DEF Restart, disk
<1>6. CASE Dispatch
  <2>1. UNCHANGED <<prototype, byUnit, markers, backup, count, samples, cmdline, crashes, resets>>
    BY <1>6 DEF Dispatch
  <2>2. pools' \subseteq {"2M", "1G"}
    <3>1. \A c : PoolOf(c) \subseteq {"2M", "1G"}
      BY PoolOfIs
    <3> QED
      BY <1>0, <1>6, <3>1
  <2>3. stage' \in StageSet /\ iter' \in Nat
    BY <1>0, <1>6
  <2>4. enabled' \in BOOLEAN
    BY <1>0, <1>6, Zenon
  <2> QED
    BY <1>0, <1>6, <2>1, <2>2, <2>3, <2>4
<1>7. CASE Setup
  BY <1>7 DEF Setup
<1>8. CASE EnableService
  BY <1>8 DEF EnableService
<1>9. CASE TouchSetup
  BY <1>9 DEF TouchSetup
<1>10. CASE LeaveSetup
  <2>1. Append(backup, "memmap") \in Seq(Options)
    BY DEF Options
  <2> QED
    BY <1>10, <2>1 DEF LeaveSetup, disk
<1>11. CASE RunSample
  <2> DEFINE cfg == Configs(stage)[1 + (iter \div Loops)]
             m == [cfg |-> cfg, hp |-> HugePageSize(cmdline),
                   emulated |-> Emulated(cmdline), pools |-> pools]
  <2>1. cfg \in ConfigSet
    BY <1>11, ConfigAt DEF RunSample
  <2> HIDE DEF cfg
  <2>2. HugePageSize(cmdline) \in {"2M", "1G"} /\ Emulated(cmdline) \in BOOLEAN
    BY KernelOptions
  <2>3. m \in [cfg : ConfigSet, hp : {"2M", "1G"},
                emulated : BOOLEAN, pools : SUBSET {"2M", "1G"}]
    BY <2>1, <2>2, Zenon
  <2>4. count' = [count EXCEPT ![cfg] = @ + 1] /\ samples' = samples \cup {m}
    BY <1>11 DEF RunSample, cfg
  <2> HIDE DEF m
  <2>5. count' \in [ConfigSet -> Nat]
    BY <2>1, <2>4
  <2>6. samples' \subseteq [cfg : ConfigSet, hp : {"2M", "1G"},
                            emulated : BOOLEAN, pools : SUBSET {"2M", "1G"}]
    BY <2>3, <2>4
  <2>7. /\ iter' = iter + 1 /\ pc' \in {"touch", "run"}
        /\ UNCHANGED <<prototype, byUnit, markers, enabled, backup, cmdline, pools, stage,
                       crashes, resets>>
    BY <1>11 DEF RunSample
  <2> QED
    BY <2>5, <2>6, <2>7
<1>12. CASE TouchStage
  BY <1>12 DEF TouchStage
<1>13. CASE LeaveStage
  <2>1. \A s \in {"dram4K", "dram2M"} : KexecOption(s) \in Options
    BY Zenon DEF KexecOption, Options
  <2> QED
    <3>1. \A s \in {"dram4K", "dram2M"} : Append(backup, KexecOption(s)) \in Seq(Options)
      BY <2>1
    <3>2. cmdline' \in Seq(Options)
      <4>1. cmdline' \in {<<>>, cmdline, Append(backup, KexecOption("dram4K")),
                         Append(backup, KexecOption("dram2M"))}
        BY <1>13 DEF LeaveStage
      <4>2. <<>> \in Seq(Options) /\ cmdline \in Seq(Options)
        OBVIOUS
      <4>3. Append(backup, KexecOption("dram4K")) \in Seq(Options)
        BY <3>1, Zenon
      <4>4. Append(backup, KexecOption("dram2M")) \in Seq(Options)
        BY <3>1, Zenon
      <4> QED
        BY <4>1, <4>2, <4>3, <4>4, Zenon
    <3>3. pools' \subseteq {"2M", "1G"} /\ pc' \in {"down", "idle"}
      BY <1>13 DEF LeaveStage
    <3> QED
      BY <1>13, <3>2, <3>3 DEF LeaveStage, disk
<1>14. CASE UNCHANGED vars
  BY <1>14 DEF vars, disk
<1> QED
  BY <1>1, <1>2, <1>3, <1>4, <1>5, <1>6, <1>7, <1>8, <1>9, <1>10, <1>11, <1>12, <1>13, <1>14
  DEF Next, Script

LEMMA MarkersStep ==
    ASSUME TypeOK, MarkersInOrder, [Next]_vars
    PROVE  MarkersInOrder'
<1> USE DEF TypeOK, MarkersInOrder
<1>1. CASE Start
  BY <1>1 DEF Start, disk
<1>2. CASE Boot
  BY <1>2 DEF Boot, disk
<1>3. CASE Crash
  BY <1>3 DEF Crash, disk
<1>4. CASE Reset
  BY <1>4 DEF Reset, disk
<1>5. CASE Restart
  BY <1>5 DEF Restart, disk
<1>6. CASE Dispatch
  BY <1>6, DispatchIs DEF Dispatch
<1>7. CASE Setup
  BY <1>7 DEF Setup
<1>8. CASE EnableService
  BY <1>8 DEF EnableService
<1>9. CASE TouchSetup
  BY <1>9, StageSetIs DEF TouchSetup, Before
<1>10. CASE LeaveSetup
  BY <1>10 DEF LeaveSetup, disk
<1>11. CASE RunSample
  BY <1>11 DEF RunSample
<1>12. CASE TouchStage
  BY <1>12, StageSetIs DEF TouchStage, Before, AllMarkers
<1>13. CASE LeaveStage
  BY <1>13, StageSetIs DEF LeaveStage, disk, Before, AllMarkers
<1>14. CASE UNCHANGED vars
  BY <1>14 DEF vars, disk
<1> QED
  BY <1>1, <1>2, <1>3, <1>4, <1>5, <1>6, <1>7, <1>8, <1>9, <1>10, <1>11, <1>12, <1>13, <1>14
  DEF Next, Script

-----------------------------------------------------------------------------
\* The samples.

LEMMA StageOfIs ==
    ASSUME NEW c \in ConfigSet
    PROVE  /\ StageOf(c) \in StageSet /\ Pos(c) \in {0, 1, 2}
           /\ StageOf(c) # "pmem" => Pos(c) = 0
           /\ \A d \in ConfigSet : StageOf(c) = StageOf(d) /\ Pos(c) = Pos(d) => c = d
BY StageSetIs DEF StageOf, Pos, ConfigSet

LEMMA ShareIs ==
    ASSUME TypeOK, NEW i \in Nat, NEW k \in {0, 1, 2}
    PROVE  /\ Share(i, k) \in Nat /\ Share(i, k) <= Loops
           /\ Share(0, k) = 0
           /\ i = 3 * Loops => Share(i, k) = Loops
           /\ i = Loops /\ k = 0 => Share(i, k) = Loops
           /\ i < 3 * Loops =>
                Share(i + 1, k) =
                  IF k = (IF i < Loops THEN 0 ELSE IF i < 2 * Loops THEN 1 ELSE 2)
                  THEN Share(i, k) + 1 ELSE Share(i, k)
<1> DEFINE L == Loops
<1>0. L \in Nat \ {0}
  BY TotalIs
<1>1. \A j, n : Share(j, n) = IF j <= n * L THEN 0 ELSE IF j <= n * L + L THEN j - n * L ELSE L
  BY DEF Share
<1> HIDE DEF L
<1>2. 0 * L = 0 /\ 1 * L = L
  BY <1>0
<1>3. \A j : /\ Share(j, 0) = IF j <= 0 THEN 0 ELSE IF j <= 0 + L THEN j - 0 ELSE L
             /\ Share(j, 1) = IF j <= L THEN 0 ELSE IF j <= L + L THEN j - L ELSE L
             /\ Share(j, 2) = IF j <= 2 * L THEN 0 ELSE IF j <= 2 * L + L THEN j - 2 * L ELSE L
  BY <1>1, <1>2
<1>4. /\ Share(i, k) \in Nat /\ Share(i, k) <= L
      /\ Share(0, k) = 0
      /\ i = 3 * L => Share(i, k) = L
      /\ i = L /\ k = 0 => Share(i, k) = L
      /\ i < 3 * L =>
           Share(i + 1, k) = IF k = (IF i < L THEN 0 ELSE IF i < 2 * L THEN 1 ELSE 2)
                             THEN Share(i, k) + 1 ELSE Share(i, k)
  <2>1. CASE k = 0
    BY <1>0, <1>3, <2>1
  <2>2. CASE k = 1
    BY <1>0, <1>3, <2>2
  <2>3. CASE k = 2
    BY <1>0, <1>3, <2>3
  <2> QED
    BY <2>1, <2>2, <2>3
<1> QED
  BY <1>4 DEF L

LEMMA TakenIs ==
    ASSUME TypeOK, NEW c \in ConfigSet
    PROVE  /\ Taken(c) \in Nat /\ Taken(c) <= Loops
           /\ pc \notin {"run", "touch"} => Taken(c) = 0
           /\ pc \in {"run", "touch"} /\ stage = StageOf(c) /\ iter = 0 => Taken(c) = 0
           /\ pc = "touch" /\ stage = StageOf(c) /\ iter = Total(stage) => Taken(c) = Loops
<1>1. iter \in Nat /\ Loops \in Nat \ {0} /\ Pos(c) \in {0, 1, 2} /\ StageOf(c) \in StageSet
  BY TotalIs, StageOfIs DEF TypeOK
<1>2. /\ Share(iter, Pos(c)) \in Nat /\ Share(iter, Pos(c)) <= Loops
      /\ Share(0, Pos(c)) = 0
      /\ iter = 3 * Loops => Share(iter, Pos(c)) = Loops
      /\ iter = Loops /\ Pos(c) = 0 => Share(iter, Pos(c)) = Loops
  BY <1>1, ShareIs
<1>3. stage = StageOf(c) /\ iter = Total(stage) => Share(iter, Pos(c)) = Loops
  BY <1>1, <1>2, TotalIs, StageOfIs
<1> QED
  BY <1>1, <1>2, <1>3 DEF Taken

\* Products of the number of repetitions and the number of crashes.
LEMMA Product ==
    ASSUME NEW l \in Nat, NEW n \in Nat
    PROVE  l * n \in Nat /\ l * (n + 1) = l * n + l /\ l * (1 + n) = l * n + l
OBVIOUS

LEMMA CountedStep ==
    ASSUME TypeOK, MarkersInOrder, Counted, [Next]_vars
    PROVE  Counted'
<1>0. /\ Loops \in Nat \ {0} /\ crashes \in Nat /\ iter \in Nat /\ stage \in StageSet
      /\ Loops * crashes \in Nat
      /\ \A c \in ConfigSet : count[c] \in Nat
  <2>1. Loops \in Nat \ {0} /\ crashes \in Nat /\ iter \in Nat /\ stage \in StageSet
    BY TotalIs, BoundsAssumption DEF TypeOK
  <2>2. \A c \in ConfigSet : count[c] \in Nat
    BY DEF TypeOK
  <2> QED
    BY <2>1, <2>2, Product
<1>1. \A c \in ConfigSet : /\ Taken(c) \in Nat /\ Taken(c) <= Loops
                           /\ pc \notin {"run", "touch"} => Taken(c) = 0
  BY TakenIs
<1>2. \A c \in ConfigSet : /\ markers = {} => count[c] = 0
                           /\ StageOf(c) \notin markers =>
                                Taken(c) <= count[c] /\ count[c] <= Loops * crashes + Taken(c)
                           /\ StageOf(c) \in markers =>
                                Loops <= count[c] /\ count[c] <= Loops * crashes + Loops
  BY DEF Counted
<1>a. \A c : pc' \notin {"run", "touch"} => Taken(c)' = 0
  BY DEF Taken
<1>b. prototype' = prototype => /\ Loops' = Loops
                                /\ \A s : Total(s)' = Total(s)
                                /\ \A i, k : Share(i, k)' = Share(i, k)
  BY DEF Loops, Total, Share
<1>c. \A c \in ConfigSet : StageOf(c) \in StageSet /\ StageOf(c) # "setup"
  BY StageOfIs, StageSetIs
\* Steps that neither take samples nor set markers.
<1>3. ASSUME UNCHANGED <<prototype, count, markers, crashes>>,
             pc \notin {"run", "touch"}, pc' \notin {"run", "touch"}
      PROVE  Counted'
  <2>1. Loops' = Loops
    BY <1>3, <1>b
  <2>2. \A c \in ConfigSet : Taken(c)' = 0 /\ Taken(c) = 0
    BY <1>3, <1>1, <1>a
  <2> QED
    BY <1>2, <1>3, <2>1, <2>2 DEF Counted
\* Steps after which nothing has been measured.
<1>4. ASSUME pc' \notin {"run", "touch"}, markers' \subseteq {"setup"},
             crashes' = crashes, Loops' \in Nat, \A c \in ConfigSet : count'[c] = 0
      PROVE  Counted'
  <2>1. Loops' * crashes \in Nat
    BY <1>0, <1>4, Product
  <2>2. \A c \in ConfigSet : Taken(c)' = 0 /\ StageOf(c) \notin markers'
    BY <1>4, <1>a, <1>c
  <2> QED
    BY <1>4, <2>1, <2>2 DEF Counted
<1>5. CASE Start
  <2>1. Loops' \in Nat
    BY <1>5, LoopCountAssumption DEF Start, Loops
  <2>2. \A c \in ConfigSet : count'[c] = 0
    BY <1>2, <1>5 DEF Start, disk
  <2> QED
    BY <1>4, <1>5, <2>1, <2>2 DEF Start, disk
<1>6. CASE Boot
  BY <1>3, <1>6 DEF Boot, disk
<1>7. CASE Crash
  <2>1. /\ crashes' = crashes + 1 /\ pc' = "down"
        /\ UNCHANGED <<prototype, count, markers>>
    BY <1>7 DEF Crash, disk
  <2>2. Loops' = Loops /\ \A c \in ConfigSet : Taken(c)' = 0
    BY <1>a, <1>b, <2>1
  <2>3. Loops * crashes' = Loops * crashes + Loops
    BY <1>0, <2>1, Product
  <2>4. ASSUME NEW c \in ConfigSet
        PROVE  /\ markers' = {} => count'[c] = 0
               /\ StageOf(c) \notin markers' =>
                    Taken(c)' <= count'[c] /\ count'[c] <= Loops' * crashes' + Taken(c)'
               /\ StageOf(c) \in markers' =>
                    Loops' <= count'[c] /\ count'[c] <= Loops' * crashes' + Loops'
    BY <1>0, <1>1, <1>2, <2>1, <2>2, <2>3
  <2> QED
    BY <2>1, <2>4 DEF Counted
<1>8. CASE Reset
  <2>1. Loops' \in Nat
    BY <1>0, <1>8, <1>b DEF Reset
  <2>2. \A c \in ConfigSet : count'[c] = 0
    BY <1>8 DEF Reset
  <2> QED
    BY <1>4, <1>8, <2>1, <2>2 DEF Reset
<1>9. CASE Restart
  BY <1>3, <1>9 DEF Restart, disk
<1>10. CASE Dispatch
  <2>a. UNCHANGED <<prototype, count, markers, crashes>> /\ pc = "dispatch"
    BY <1>10 DEF Dispatch
  <2>b. pc' = "setup" \/ pc' = "idle" \/ (pc' = "run" /\ iter' = 0 /\ stage' \in StageSet)
    BY <1>10, DispatchIs, Zenon
  <2>1. /\ UNCHANGED <<prototype, count, markers, crashes>> /\ pc = "dispatch"
        /\ pc' \in {"setup", "idle"} \/ (pc' = "run" /\ iter' = 0 /\ stage' \in StageSet)
    BY <2>a, <2>b
  <2>2. CASE pc' \in {"setup", "idle"}
    BY <1>3, <2>1, <2>2
  <2>3. CASE pc' = "run" /\ iter' = 0 /\ stage' \in StageSet
    <3>1. Loops' = Loops /\ \A c \in ConfigSet : Taken(c) = 0
      BY <1>1, <1>b, <2>1
    <3>2. \A c \in ConfigSet : Share(0, Pos(c)) = 0
      BY StageOfIs, ShareIs
    <3>3. \A c \in ConfigSet : Taken(c)' = 0
      BY <1>b, <2>1, <2>3, <3>2 DEF Taken
    <3>4. \A s \in StageSet : 0 < Total(s)' /\ Total(s)' = Total(s)
      BY <1>0, <1>b, <2>1, TotalIs
    <3> QED
      BY <1>2, <2>1, <2>3, <3>1, <3>3, <3>4 DEF Counted
  <2> QED
    BY <2>1, <2>2, <2>3
<1>11. CASE Setup
  BY <1>3, <1>11 DEF Setup
<1>12. CASE EnableService
  BY <1>3, <1>12 DEF EnableService
<1>13. CASE TouchSetup
  <2>1. markers = {} /\ pc' = "leave" /\ markers' = markers \cup {"setup"}
    BY <1>13 DEF TouchSetup, MarkersInOrder
  <2>2. Loops' \in Nat
    BY <1>0, <1>13, <1>b DEF TouchSetup
  <2>3. \A c \in ConfigSet : count'[c] = 0
    BY <1>2, <1>13, <2>1 DEF TouchSetup
  <2> QED
    BY <1>4, <1>13, <2>1, <2>2, <2>3 DEF TouchSetup
<1>14. CASE LeaveSetup
  BY <1>3, <1>14 DEF LeaveSetup, disk
<1>15. CASE RunSample
  <2> DEFINE d == iter \div Loops
             cfg == Configs(stage)[1 + d]
  <2>1. /\ iter < Total(stage) /\ pc = "run" /\ iter' = iter + 1
        /\ count' = [count EXCEPT ![cfg] = @ + 1]
        /\ pc' = IF iter' = Total(stage) THEN "touch" ELSE "run"
        /\ UNCHANGED <<prototype, markers, stage, crashes>>
    BY <1>15 DEF RunSample
  <2>2. /\ cfg \in ConfigSet /\ StageOf(cfg) = stage /\ Pos(cfg) = d
        /\ d = IF iter < Loops THEN 0 ELSE IF iter < 2 * Loops THEN 1 ELSE 2
    BY <1>0, <2>1, ConfigAt
  <2> HIDE DEF d, cfg
  <2>3. Loops' = Loops /\ Total(stage)' = Total(stage) /\ iter < 3 * Loops
    <3>1. Loops' = Loops /\ \A s : Total(s)' = Total(s)
      BY <1>b, <2>1
    <3>2. iter < 3 * Loops
      BY <1>0, <2>1, TotalIs
    <3> QED
      BY <2>1, <3>1, <3>2 DEF Total
  <2>4. \A c \in ConfigSet :
          /\ Taken(c) = IF stage = StageOf(c) THEN Share(iter, Pos(c)) ELSE 0
          /\ Taken(c)' = IF stage = StageOf(c) THEN Share(iter + 1, Pos(c)) ELSE 0
    <3>1. pc' \in {"run", "touch"} /\ stage' = stage
      BY <2>1
    <3>3. \A c : Taken(c)' = IF stage = StageOf(c) THEN Share(iter, Pos(c))' ELSE 0
      BY <3>1 DEF Taken
    <3>4. \A k : Share(iter, k)' = Share(iter + 1, k)
      BY <2>1, <2>3 DEF Share
    <3>5. \A c : Taken(c) = IF stage = StageOf(c) THEN Share(iter, Pos(c)) ELSE 0
      BY <2>1 DEF Taken
    <3> QED
      BY <3>3, <3>4, <3>5
  <2>5. ASSUME NEW c \in ConfigSet
        PROVE  IF c = cfg THEN count'[c] = count[c] + 1 /\ Taken(c)' = Taken(c) + 1
               ELSE count'[c] = count[c] /\ Taken(c)' = Taken(c)
    <3>1. count'[c] = IF c = cfg THEN count[c] + 1 ELSE count[c]
      BY <2>1, <2>2 DEF TypeOK
    <3>2. Pos(c) \in {0, 1, 2} /\ (c = cfg <=> StageOf(c) = stage /\ Pos(c) = d)
      BY <2>2, StageOfIs
    <3>3. Share(iter + 1, Pos(c)) =
            IF Pos(c) = d THEN Share(iter, Pos(c)) + 1 ELSE Share(iter, Pos(c))
      BY <1>0, <2>2, <2>3, <3>2, ShareIs
    <3> QED
      BY <2>4, <3>1, <3>2, <3>3
  <2>6. StageOf(cfg) \notin markers /\ markers # {}
    BY <1>0, <2>1, <2>2, StageSetIs DEF MarkersInOrder, Before
  <2>7. ASSUME NEW c \in ConfigSet
        PROVE  /\ markers' = {} => count'[c] = 0
               /\ StageOf(c) \notin markers' =>
                    Taken(c)' <= count'[c] /\ count'[c] <= Loops' * crashes' + Taken(c)'
               /\ StageOf(c) \in markers' =>
                    Loops' <= count'[c] /\ count'[c] <= Loops' * crashes' + Loops'
    <3>1. Loops' * crashes' = Loops * crashes /\ markers' = markers
      BY <2>1, <2>3
    <3>2. CASE c = cfg
      BY <1>0, <1>1, <1>2, <2>3, <2>5, <2>6, <3>1, <3>2
    <3>3. CASE c # cfg
      BY <1>2, <2>3, <2>5, <2>6, <3>1, <3>3
    <3> QED
      BY <3>2, <3>3
  <2>8. /\ pc' = "run" => iter' < Total(stage)'
        /\ pc' = "touch" => iter' = Total(stage)'
    <3>1. Total(stage) \in Nat
      BY <1>0, TotalIs
    <3> QED
      BY <1>0, <2>1, <2>3, <3>1
  <2> QED
    BY <2>7, <2>8 DEF Counted
<1>16. CASE TouchStage
  <2>1. /\ pc = "touch" /\ pc' = "reboot" /\ markers' = markers \cup {stage}
        /\ UNCHANGED <<prototype, count, crashes>>
    BY <1>16 DEF TouchStage
  <2>2. Loops' = Loops /\ \A c \in ConfigSet : Taken(c)' = 0
    BY <1>a, <1>b, <2>1
  <2>3. stage \notin markers /\ markers # {} /\ iter = Total(stage)
    BY <1>0, <2>1, StageSetIs DEF MarkersInOrder, Before, Counted
  <2>4. \A c \in ConfigSet : IF StageOf(c) = stage THEN Taken(c) = Loops ELSE Taken(c) = 0
    BY <2>1, <2>3, TakenIs DEF Taken
  <2>5. ASSUME NEW c \in ConfigSet
        PROVE  /\ markers' = {} => count'[c] = 0
               /\ StageOf(c) \notin markers' =>
                    Taken(c)' <= count'[c] /\ count'[c] <= Loops' * crashes' + Taken(c)'
               /\ StageOf(c) \in markers' =>
                    Loops' <= count'[c] /\ count'[c] <= Loops' * crashes' + Loops'
    <3>1. Loops' * crashes' = Loops * crashes
      BY <2>1, <2>2
    <3>2. CASE StageOf(c) = stage
      BY <1>2, <2>1, <2>2, <2>3, <2>4, <3>1, <3>2
    <3>3. CASE StageOf(c) # stage
      BY <1>2, <2>1, <2>2, <2>3, <2>4, <3>1, <3>3
    <3> QED
      BY <3>2, <3>3
  <2> QED
    BY <2>1, <2>5 DEF Counted
<1>17. CASE LeaveStage
  <2>1. pc = "reboot" /\ pc' \in {"down", "idle"} /\ UNCHANGED <<prototype, count, markers, crashes>>
    BY <1>17 DEF LeaveStage, disk
  <2> QED
    BY <1>3, <2>1
<1>18. CASE UNCHANGED vars
  BY <1>18 DEF vars, disk, Counted, Taken, Share, Total, Loops
<1> QED
  BY <1>5, <1>6, <1>7, <1>8, <1>9, <1>10, <1>11, <1>12, <1>13, <1>14, <1>15, <1>16, <1>17, <1>18
  DEF Next, Script

-----------------------------------------------------------------------------
\* The machine.

LEMMA PoolsStep ==
    ASSUME TypeOK, MarkersInOrder, PoolsOfStage, [Next]_vars
    PROVE  PoolsOfStage'
<1>0. ASSUME Dispatch
      PROVE  /\ pc = "dispatch"
             /\ \/ pc' \in {"setup", "idle"} /\ pools' = pools
                \/ pc' = "run" /\ pools' = pools \cup PoolOf(stage')
  <2>1. pc = "dispatch"
    BY <1>0 DEF Dispatch
  <2>2. \/ pc' = "setup" /\ pools' = pools
        \/ pc' = "idle" /\ pools' = pools
        \/ pc' = "run" /\ pools' = pools \cup PoolOf(stage')
    BY <1>0, DispatchIs, Zenon
  <2> QED
    BY <2>1, <2>2
<1>a. PoolOf(stage)' = PoolOf(stage')
  BY DEF PoolOf
<1>b. stage' = stage => PoolOf(stage') = PoolOf(stage)
  OBVIOUS
<1> USE DEF PoolsOfStage
<1>1. CASE Start
  BY <1>1 DEF Start, disk
<1>2. CASE Boot
  BY <1>2 DEF Boot, disk
<1>3. CASE Crash
  BY <1>3 DEF Crash, disk
<1>4. CASE Reset
  BY <1>4 DEF Reset
<1>5. CASE Restart
  BY <1>5 DEF Restart, disk
<1>6. CASE Dispatch
  BY <1>6, <1>0, <1>a
<1>7. CASE Setup
  BY <1>7 DEF Setup
<1>8. CASE EnableService
  BY <1>8 DEF EnableService
<1>9. CASE TouchSetup
  BY <1>9 DEF TouchSetup
<1>10. CASE LeaveSetup
  BY <1>10 DEF LeaveSetup, disk
<1>11. CASE RunSample
  BY <1>11, <1>a, <1>b DEF RunSample
<1>12. CASE TouchStage
  BY <1>12, <1>a, <1>b DEF TouchStage
<1>13. CASE LeaveStage
  BY <1>13, PoolOfIs DEF LeaveStage, disk
<1>14. CASE UNCHANGED vars
  BY <1>14, <1>a, <1>b DEF vars, disk
<1> QED
  BY <1>1, <1>2, <1>3, <1>4, <1>5, <1>6, <1>7, <1>8, <1>9, <1>10, <1>11, <1>12, <1>13, <1>14
  DEF Next, Script

\* The marker sets differ.
LEMMA BeforeDiffers ==
    /\ Before("pmem") # {} /\ Before("dram2M") # {} /\ Before("dram1G") # {}
    /\ Before("pmem") # Before("dram2M") /\ Before("pmem") # Before("dram1G")
    /\ Before("dram2M") # Before("dram1G")
    /\ Before("dram4K") # Before("pmem") /\ Before("dram4K") # Before("dram2M")
    /\ Before("dram4K") # Before("dram1G")
    /\ AllMarkers # Before("pmem") /\ AllMarkers # Before("dram2M")
    /\ AllMarkers # Before("dram1G")
    /\ \A s \in StageSet :
         /\ s # "pmem" => Before(s) # Before("pmem")
         /\ Before(s) \cup {s} # Before("pmem")
         /\ s = "pmem" => Before(s) \cup {s} = Before("dram4K")
         /\ s = "dram4K" => Before(s) \cup {s} = Before("dram2M")
         /\ s = "dram2M" => Before(s) \cup {s} = Before("dram1G")
BY StageSetIs DEF Before, AllMarkers

LEMMA KernelStep ==
    ASSUME TypeOK, MarkersInOrder, KernelOfStage, [Next]_vars
    PROVE  KernelOfStage'
<1>a. /\ HugePageSize(cmdline)' = HugePageSize(cmdline')
      /\ Emulated(cmdline)' <=> Emulated(cmdline')
      /\ Emulated(backup)' <=> Emulated(backup')
  BY DEF HugePageSize, Emulated
<1>b. \A s : Before(s)' = Before(s)
  BY DEF Before
<1>c. backup \in Seq(Options) /\ crashes \in Nat /\ resets \in Nat /\ stage \in StageSet
  BY BoundsAssumption DEF TypeOK
<1>d. /\ HugePageSize(Append(backup, "hp1G")) = "1G" /\ HugePageSize(Append(backup, "hp2M")) = "2M"
      /\ ~Emulated(<<>>) /\ Emulated(Append(backup, "memmap"))
      /\ Emulated(Append(backup, "hp1G")) <=> Emulated(backup)
      /\ Emulated(Append(backup, "hp2M")) <=> Emulated(backup)
  BY <1>c, KernelOptions
<1>e. /\ resets = 0 => ~Emulated(backup)
      /\ resets = 0 /\ Emulated(cmdline) /\ ~(pc = "reboot" /\ stage = "pmem") =>
           markers = Before("pmem")
  BY DEF KernelOfStage
\* Steps that leave the kernel and the markers alone.
<1>f. ASSUME UNCHANGED <<prototype, markers, backup, cmdline, crashes, resets>>,
             pc' \in {"down", "dispatch", "run"} => pc \in {"down", "dispatch", "run"},
             pc # "reboot"
      PROVE  KernelOfStage'
  BY <1>a, <1>b, <1>f DEF KernelOfStage
<1>1. CASE Start
  BY <1>1, <1>a, <1>b, <1>e, BeforeDiffers DEF Start, disk, KernelOfStage
<1>2. CASE Boot
  BY <1>2, <1>f DEF Boot, disk
<1>3. CASE Crash
  <2>1. /\ crashes' = crashes + 1 /\ cmdline' = <<>> /\ UNCHANGED <<backup, resets>>
    BY <1>3 DEF Crash, disk
  <2>2. crashes' # 0
    BY <1>c, <2>1
  <2> QED
    BY <1>a, <1>d, <1>e, <2>1, <2>2 DEF KernelOfStage
<1>4. CASE Reset
  <2>1. resets' = resets + 1 /\ pc' = "idle"
    BY <1>4 DEF Reset
  <2>2. resets' # 0
    BY <1>c, <2>1
  <2> QED
    BY <2>1, <2>2 DEF KernelOfStage
<1>5. CASE Restart
  <2>1. /\ markers = AllMarkers \/ (markers = Before("pmem") /\ ~prototype)
        /\ cmdline' = <<>> /\ pc' = "down"
        /\ UNCHANGED <<prototype, markers, backup, resets>>
    BY <1>5 DEF Restart, disk, MarkersInOrder
  <2> QED
    BY <1>a, <1>b, <1>d, <1>e, <2>1, BeforeDiffers DEF KernelOfStage
<1>6. CASE Dispatch
  BY <1>6, <1>f DEF Dispatch
<1>7. CASE Setup
  <2>1. /\ markers = {} /\ backup' = cmdline /\ pc = "setup" /\ pc' = "enable"
        /\ UNCHANGED <<markers, cmdline, resets, stage>>
    BY <1>7 DEF Setup, MarkersInOrder
  <2>2. resets = 0 => ~Emulated(cmdline)
    BY <1>e, <2>1, BeforeDiffers
  <2> QED
    BY <1>a, <2>1, <2>2 DEF KernelOfStage
<1>8. CASE EnableService
  BY <1>8, <1>f DEF EnableService
<1>9. CASE TouchSetup
  <2>1. /\ markers = {} /\ pc = "mark" /\ pc' = "leave"
        /\ UNCHANGED <<backup, cmdline, resets>>
    BY <1>9 DEF TouchSetup, MarkersInOrder
  <2>2. resets = 0 => ~Emulated(cmdline)
    BY <1>e, <2>1, BeforeDiffers
  <2> QED
    BY <1>a, <1>e, <2>1, <2>2 DEF KernelOfStage
<1>10. CASE LeaveSetup
  <2>1. /\ markers = Before("pmem") /\ UNCHANGED <<prototype, markers, backup, crashes, resets>>
        /\ prototype => cmdline' = Append(backup, "memmap")
        /\ ~prototype => cmdline' = cmdline
    BY <1>10 DEF LeaveSetup, disk, MarkersInOrder
  <2> QED
    BY <1>a, <1>b, <1>d, <1>e, <2>1, BeforeDiffers DEF KernelOfStage
<1>11. CASE RunSample
  BY <1>11, <1>f DEF RunSample
<1>12. CASE TouchStage
  <2>1. /\ markers = Before(stage) /\ pc = "touch" /\ pc' = "reboot"
        /\ UNCHANGED <<backup, cmdline, resets, stage>>
    BY <1>12 DEF TouchStage, MarkersInOrder
  <2>2. resets = 0 /\ Emulated(cmdline) => stage = "pmem"
    BY <1>c, <1>e, <2>1, BeforeDiffers
  <2> QED
    BY <1>a, <1>e, <2>1, <2>2 DEF KernelOfStage
<1>13. CASE LeaveStage
  <2>1. /\ markers = Before(stage) \cup {stage} /\ pc = "reboot"
        /\ UNCHANGED <<markers, backup, crashes, resets, prototype>>
    BY <1>13 DEF LeaveStage, disk, MarkersInOrder
  <2>2. CASE stage = "pmem"
    <3>1. cmdline' = <<>> /\ markers = Before("dram4K")
      BY <1>13, <1>c, <2>1, <2>2, BeforeDiffers DEF LeaveStage
    <3> QED
      BY <1>a, <1>b, <1>d, <1>e, <2>1, <3>1, BeforeDiffers DEF KernelOfStage
  <2>3. CASE stage = "dram4K"
    <3>1. KexecOption("dram4K") = "hp2M"
      BY Zenon DEF KexecOption
    <3>2. cmdline' = Append(backup, "hp2M") /\ markers = Before("dram2M")
      BY <1>13, <1>c, <2>1, <2>3, <3>1, BeforeDiffers DEF LeaveStage
    <3> QED
      BY <1>a, <1>b, <1>d, <1>e, <2>1, <3>2, BeforeDiffers DEF KernelOfStage
  <2>4. CASE stage = "dram2M"
    <3>1. KexecOption("dram2M") = "hp1G"
      BY Zenon DEF KexecOption
    <3>2. cmdline' = Append(backup, "hp1G") /\ markers = Before("dram1G")
      BY <1>13, <1>c, <2>1, <2>4, <3>1, BeforeDiffers DEF LeaveStage
    <3> QED
      BY <1>a, <1>b, <1>d, <1>e, <2>1, <3>2, BeforeDiffers DEF KernelOfStage
  <2>5. CASE stage = "dram1G"
    <3>1. cmdline' = cmdline /\ pc' = "idle"
      BY <1>13, <2>5 DEF LeaveStage
    <3> QED
      BY <1>a, <1>b, <1>e, <2>1, <2>5, <3>1 DEF KernelOfStage
  <2> QED
    BY <1>c, <2>2, <2>3, <2>4, <2>5, StageSetIs
<1>14. CASE UNCHANGED vars
  BY <1>14, <1>a, <1>b DEF vars, disk, KernelOfStage
<1> QED
  BY <1>1, <1>2, <1>3, <1>4, <1>5, <1>6, <1>7, <1>8, <1>9, <1>10, <1>11, <1>12, <1>13, <1>14
  DEF Next, Script

LEMMA LabelStep ==
    ASSUME TypeOK, MarkersInOrder, PoolsOfStage, KernelOfStage, SamplesLabelled, [Next]_vars
    PROVE  SamplesLabelled'
<1>a. \A c : PoolOf(c)' = PoolOf(c) /\ StageOf(c)' = StageOf(c)
  BY DEF PoolOf, StageOf
<1>c. crashes \in Nat /\ resets \in Nat /\ iter \in Nat /\ stage \in StageSet
      /\ prototype \in BOOLEAN
  BY BoundsAssumption DEF TypeOK
\* Steps that take no sample, and after which no more was promised of those there are.
<1>f. ASSUME samples' = samples, prototype' = prototype \/ samples = {},
             markers' = {} => markers = {},
             crashes' = 0 => crashes = 0, resets' = 0 => resets = 0
      PROVE  SamplesLabelled'
  BY <1>a, <1>f DEF SamplesLabelled
<1>1. CASE Start
  BY <1>1, <1>f DEF Start, disk, SamplesLabelled
<1>2. CASE Boot
  BY <1>2, <1>f DEF Boot, disk
<1>3. CASE Crash
  BY <1>3, <1>c, <1>f DEF Crash, disk
<1>4. CASE Reset
  BY <1>4 DEF Reset, SamplesLabelled
<1>5. CASE Restart
  BY <1>5, <1>f DEF Restart, disk
<1>6. CASE Dispatch
  BY <1>6, <1>f DEF Dispatch
<1>7. CASE Setup
  BY <1>7, <1>f DEF Setup
<1>8. CASE EnableService
  BY <1>8, <1>f DEF EnableService
<1>9. CASE TouchSetup
  BY <1>9, <1>f DEF TouchSetup
<1>10. CASE LeaveSetup
  BY <1>10, <1>f DEF LeaveSetup, disk
<1>11. CASE RunSample
  <2> DEFINE cfg == Configs(stage)[1 + (iter \div Loops)]
             n == [cfg |-> cfg, hp |-> HugePageSize(cmdline),
                   emulated |-> Emulated(cmdline), pools |-> pools]
  <2>1. cfg \in ConfigSet /\ StageOf(cfg) = stage
    BY <1>11, <1>c, ConfigAt DEF RunSample
  <2>2. samples' = samples \cup {n}
    BY <1>11 DEF RunSample
  <2> HIDE DEF cfg
  <2>3. n.cfg = cfg /\ n.hp = HugePageSize(cmdline) /\ n.pools = pools
    OBVIOUS
  <2>4. n.emulated <=> Emulated(cmdline)
    BY Zenon
  <2> HIDE DEF n
  <2>5. /\ pc = "run" /\ markers = Before(stage)
        /\ UNCHANGED <<prototype, markers, crashes, resets>>
    BY <1>11 DEF RunSample, MarkersInOrder
  <2>6. pools = PoolOf(cfg)
    <3>1. pools = PoolOf(stage)
      BY <2>5 DEF PoolsOfStage
    <3>2. stage # "pmem" => cfg = stage
      BY <2>1 DEF StageOf
    <3>3. stage = "pmem" => cfg # "dram2M" /\ cfg # "dram1G"
      BY <2>1 DEF StageOf
    <3> QED
      BY <3>1, <3>2, <3>3, PoolOfIs
  <2>7. crashes = 0 =>
          /\ cfg = "dram1G" => n.hp = "1G"
          /\ cfg = "dram2M" => n.hp = "2M"
          /\ StageOf(cfg) = "pmem" /\ prototype => n.emulated
    <3>1. /\ cfg = "dram1G" => stage = "dram1G"
          /\ cfg = "dram2M" => stage = "dram2M"
      BY <2>1 DEF StageOf
    <3> QED
      BY <2>1, <2>3, <2>4, <2>5, <3>1 DEF KernelOfStage
  <2>8. StageOf(cfg) # "pmem" /\ resets = 0 => ~n.emulated
    BY <1>c, <2>1, <2>4, <2>5, BeforeDiffers DEF KernelOfStage
  <2>9. markers # {}
    BY <1>c, <2>5, StageSetIs DEF Before
  <2> QED
    BY <1>a, <2>2, <2>3, <2>5, <2>6, <2>7, <2>8, <2>9 DEF SamplesLabelled
<1>12. CASE TouchStage
  BY <1>12, <1>f DEF TouchStage
<1>13. CASE LeaveStage
  BY <1>13, <1>f DEF LeaveStage, disk
<1>14. CASE UNCHANGED vars
  BY <1>14, <1>f DEF vars, disk
<1> QED
  BY <1>1, <1>2, <1>3, <1>4, <1>5, <1>6, <1>7, <1>8, <1>9, <1>10, <1>11, <1>12, <1>13, <1>14
  DEF Next, Script

-----------------------------------------------------------------------------
\* The theorems.

LEMMA InitInv ==
    ASSUME Init
    PROVE  CountInv /\ LabelInv
<1>0. <<>> \in Seq(Options)
  OBVIOUS
<1>1. TypeOK
  <2>1. /\ crashes \in 0 .. MaxCrashes /\ resets \in 0 .. MaxResets /\ iter \in Nat
        /\ count \in [ConfigSet -> Nat]
    BY BoundsAssumption DEF Init
  <2>2. prototype \in BOOLEAN /\ enabled \in BOOLEAN
    BY DEF Init
  <2>3. stage \in StageSet
    BY StageSetIs DEF Init
  <2> QED
    BY <1>0, <2>1, <2>2, <2>3, Zenon DEF Init, TypeOK
<1>2. MarkersInOrder
  BY DEF Init, MarkersInOrder
<1>3. Counted
  <2>1. Loops \in Nat \ {0} /\ crashes = 0 /\ pc = "idle" /\ markers = {}
    BY <1>1, TotalIs DEF Init
  <2>2. Loops * crashes \in Nat
    BY <2>1, Product
  <2>3. \A c \in ConfigSet : count[c] = 0 /\ Taken(c) = 0
    BY DEF Init, Taken
  <2> QED
    BY <2>1, <2>2, <2>3 DEF Counted
<1>4. PoolsOfStage
  BY DEF Init, PoolsOfStage
<1>5. KernelOfStage
  <2>1. ~Emulated(<<>>)
    BY <1>0, KernelOptions
  <2> QED
    BY <2>1 DEF Init, KernelOfStage
<1>6. SamplesLabelled
  BY DEF Init, SamplesLabelled
<1> QED
  BY <1>1, <1>2, <1>3, <1>4, <1>5, <1>6 DEF CountInv, LabelInv

\* Whatever LOOP_COUNT is and however often the machine fails or is reset: a stage whose
\* marker file exists has LOOP_COUNT samples of each of its configurations in the logs,
\* and a configuration has at most LOOP_COUNT more of them for each power failure.  The
\* script repeats the stage it was interrupted in from its first sample, and no other.
THEOREM Complete == Spec => []SamplesComplete
<1>1. Init => CountInv
  BY InitInv
<1>2. CountInv /\ [Next]_vars => CountInv'
  BY TypeStep, MarkersStep, CountedStep DEF CountInv
<1>3. CountInv => SamplesComplete
  <2>1. SUFFICES ASSUME CountInv, NEW s \in StageSet, NEW c \in Range(Configs(s))
                 PROVE  /\ count[c] <= Loops * (1 + crashes)
                        /\ s \in markers => count[c] >= Loops
    BY DEF SamplesComplete
  <2>2. TypeOK /\ Counted /\ c \in ConfigSet /\ StageOf(c) = s
    BY <2>1, ConfigsIs DEF CountInv
  <2>3. Loops \in Nat /\ crashes \in Nat /\ count[c] \in Nat
    BY <2>2, TotalIs, BoundsAssumption DEF TypeOK
  <2>4. Loops * crashes \in Nat /\ Loops * (1 + crashes) = Loops * crashes + Loops
    BY <2>3, Product
  <2>5. Taken(c) \in Nat /\ Taken(c) <= Loops
    BY <2>2, TakenIs
  <2>6. /\ s \notin markers => count[c] <= Loops * crashes + Taken(c)
        /\ s \in markers => Loops <= count[c] /\ count[c] <= Loops * crashes + Loops
    BY <2>2 DEF Counted
  <2> QED
    BY <2>3, <2>4, <2>5, <2>6
<1> QED
  BY <1>1, <1>2, <1>3, PTL DEF Spec

\* The samples in a log were taken on the machine its name promises: with the huge page
\* size of the stage and without emulated pmem in dram stages, and with the pools of the
\* stage, for any LOOP_COUNT.  The kernel option survives from the kexec of one stage to
\* the samples of the next, and only a power failure (page size) or reset.sh on an
\* emulating kernel (emulation) breaks the chain.
THEOREM Labelled == Spec => []MeasuredAsLabelled
<1>1. Init => LabelInv
  BY InitInv
<1>2. LabelInv /\ [Next]_vars => LabelInv'
  BY TypeStep, MarkersStep, PoolsStep, KernelStep, LabelStep DEF LabelInv
<1>3. LabelInv => MeasuredAsLabelled
  <2> SUFFICES ASSUME LabelInv PROVE MeasuredAsLabelled
    OBVIOUS
  <2>1. PageSizeWithoutCrash
    BY DEF LabelInv, SamplesLabelled, PageSizeWithoutCrash, PageSizeAsLabelled
  <2>2. \A m \in samples : m.cfg \in ConfigSet
    BY DEF LabelInv, TypeOK
  <2>3. \A c \in ConfigSet : c \in Range(Configs("pmem")) <=> StageOf(c) = "pmem"
    BY ConfigsIs DEF ConfigSet, StageOf
  <2>4. EmulationAsLabelled
    BY <2>2, <2>3 DEF LabelInv, SamplesLabelled, EmulationAsLabelled
  <2> QED
    BY <2>1, <2>4 DEF MeasuredAsLabelled
<1> QED
  BY <1>1, <1>2, <1>3, PTL DEF Spec

=============================================================================
