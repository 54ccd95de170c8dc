------------------------ MODULE RegionalBundleProofs ------------------------
(***************************************************************************)
(* Proofs about regional bundles: for all regions, overlapping or not, all *)
(* features and margins, and any number of diffs, bundles, installs and    *)
(* breaks, whatever the order of the master's, the install's and poll's    *)
(* steps.                                                                  *)
(***************************************************************************)
EXTENDS RegionalBundle, InductionLemmas, TLAPS

----------------------------------------------------------------------------
(* The inductive invariant *)

Diffs == [of : Features, deleted : BOOLEAN]
TagSets == {<<>>} \cup {<<v>> : v \in Versions}
ReadVersions == UNION {[InRegion[r] -> Versions] : r \in Regions}
Bundles == [of : Regions, base : Nat, row : ReadVersions, tags : ReadVersions,
            nodes : SUBSET Features, slice : Slices, exported_at : Nat]
Steps == {"idle", "script", "index", "nodes", "register", "seed"}

BTypes ==
    /\ diffs \in Seq(Diffs) /\ tip <= MaxDiffs /\ master \in 0..tip
    /\ bundles \in Seq(Bundles)
    /\ row \in [Features -> Versions] /\ tags \in [Features -> TagSets]
    /\ nodes_file \in [state : {"none", "torn", "whole"}, has : SUBSET Features]
    /\ gist \in BOOLEAN /\ installed_regions \in SUBSET Regions
    /\ sequence \in Absent..tip
    /\ install \in [pc : Steps, of : Nat] /\ (install.pc # "idle" => install.of \in 1..Len(bundles))
    /\ poll \in [pc : {"stopped", "head", "apply"}, regions : SUBSET Regions, seq : Nat, remote : Nat]
    /\ breaks \in Nat /\ unseeded \in SUBSET (1..Len(bundles)) /\ bare \in SUBSET Regions
    /\ flaw \in SUBSET {"lag", "skipped", "overlap"}

\* No published diff after diff s is about f.
Quiet(f, s) == \A i \in 1..tip : diffs[i].of = f => i <= s

\* What was read of the members of a region, each at a time from base on, is
\* current for the members that did not change since.
Sound(r, base, versions) ==
    /\ versions \in [InRegion[r] -> Versions]
    /\ \A f \in InRegion[r] : Quiet(f, base) => versions[f] = Version(f, tip)

\* The export, step by step ...
Exporting ==
    /\ export = [pc |-> export.pc, of |-> export.of, exported_at |-> export.exported_at,
                 base |-> export.base, read |-> export.read, row |-> export.row, tags |-> export.tags]
    /\ export.pc \in {"idle", "rows", "tags", "nodes"}
    /\ export.pc # "idle" =>
          export.of \in Regions /\ export.base \in 0..master /\ export.exported_at \in 0..tip
    /\ export.pc \in {"tags", "nodes"} => Sound(export.of, export.base, export.row)
    /\ export.pc = "tags" => export.read \in export.base..master
    /\ export.pc = "nodes" => Sound(export.of, export.base, export.tags)

\* ... and what it leaves.
SoundBundle(b) ==
    /\ b.of \in Regions /\ b.base \in 0..master /\ b.exported_at \in 0..tip
    /\ Sound(b.of, b.base, b.row) /\ Sound(b.of, b.base, b.tags) /\ b.nodes \subseteq Features
BundlesSound == \A b \in 1..Len(bundles) : SoundBundle(bundles[b])

\* The node file holds the coordinates of a bundle of region r.
Located(r) ==
    /\ nodes_file.state = "whole"
    /\ \E b \in 1..Len(bundles) : bundles[b].of = r /\ bundles[b].nodes \subseteq nodes_file.has

\* The node file and the indexes, at each step of an install.
Usable ==
    /\ \A r \in installed_regions \ bare : Located(r)
    /\ install.pc \in {"register", "seed"} /\ region \notin bare =>
          nodes_file.state = "whole" /\ bundle.nodes \subseteq nodes_file.has
    /\ install.pc \in {"nodes", "register", "seed"} => gist
    /\ install.pc = "idle" /\ ~gist => breaks > 0

\* Bundles whose rows are in and whose sequence is to come.
Unseeded ==
    /\ install.pc \in {"index", "nodes", "register", "seed"} => install.of \in unseeded
    /\ \A r \in installed_regions : sequence # Absent \/ \E b \in unseeded : bundles[b].of = r

\* The inner loop of poll stays within the published diffs.
PollLoop ==
    /\ poll.pc # "stopped" => sequence # Absent /\ poll.regions \subseteq installed_regions
    /\ poll.pc = "apply" => poll.seq \in 1..poll.remote /\ poll.remote <= tip

\* A feature the target has to keep current: one of a bundle that has not been
\* given its sequence; once there is one, also one of a registered region, or
\* one whose row is there, if only of a region whose registration was skipped.
InUnseeded(f) == \E b \in unseeded : f \in InRegion[bundles[b].of]
Kept(f) ==
    \/ InUnseeded(f)
    \/ sequence # Absent /\ (row[f] # Absent \/ \E r \in installed_regions : f \in InRegion[r])

RowsKept == \A f \in Features : (row[f] # Absent => Kept(f)) /\ (row[f] = Absent => tags[f] = <<>>)

\* No diff that poll, or poll after a repeated install, still applies is about f.
Settled(f) ==
    /\ sequence # Absent => Quiet(f, sequence)
    /\ \A b \in unseeded : f \in InRegion[bundles[b].of] => Quiet(f, bundles[b].base)

Exact(f) ==
    /\ row[f] = Version(f, tip)
    /\ tags[f] = IF Version(f, tip) = Absent THEN <<>> ELSE <<Version(f, tip)>>

SettledExact == \A f \in Features : Kept(f) /\ Settled(f) => Exact(f)

\* While the sequence is not known to be too high: poll applies the diff after
\* it, a region it does not know of has not been given its sequence ...
PollInStep ==
    /\ poll.pc = "apply" => poll.seq = sequence + 1
    /\ poll.pc # "stopped" =>
          \A r \in installed_regions \ poll.regions : \E b \in unseeded : bundles[b].of = r

\* ... and poll has taken no row from a bundle whose region it does not know.
Uncovered(f) ==
    \A r \in IF poll.pc = "stopped" THEN installed_regions ELSE poll.regions : f \notin InRegion[r]
RowsLeft ==
    \A b \in unseeded : \A f \in InRegion[bundles[b].of] :
        Uncovered(f) /\ Quiet(f, bundles[b].base) /\ Version(f, tip) # Absent => row[f] # Absent

BInv ==
    /\ BTypes /\ Exporting /\ BundlesSound /\ Usable /\ Unseeded /\ PollLoop /\ RowsKept
    /\ flaw = {} => SettledExact /\ PollInStep /\ RowsLeft

----------------------------------------------------------------------------
(* Versions *)

\* The diffs and the times derived from them.
LEMMA TipFacts ==
    ASSUME BTypes
    PROVE  /\ tip \in Nat /\ master \in Nat /\ master <= tip /\ MaxDiffs \in Nat /\ tip <= MaxDiffs
           /\ \A i \in 1..tip : diffs[i] \in Diffs
  BY BundleAssumption DEF BTypes, tip

\* Max0 is the greatest member, or 0.
LEMMA MaxFacts ==
    ASSUME NEW n \in Nat, NEW S \in SUBSET (1..n)
    PROVE  Max0(S) \in S \cup {0} /\ \A y \in S : y <= Max0(S)
  <1>1. S \cup {0} \in SUBSET (0..n) /\ S \cup {0} # {}
        OBVIOUS
  <1>2. PICK x \in S \cup {0} : \A y \in S \cup {0} : y <= x
        BY <1>1, GreatestElement
  <1>3. \E z \in S \cup {0} : \A y \in S : z >= y
        BY <1>2
  <1> QED
      BY <1>3 DEF Max0

\* The diffs about f among the first s, and the version the last of them leaves.
About(f, s) == {i \in 1..s : diffs[i].of = f}
Leaves(last) == IF last > 0 /\ diffs[last].deleted THEN Absent ELSE last

\* Version in terms of the diffs about the feature.
LEMMA VersionIs == ASSUME NEW f, NEW s PROVE Version(f, s) = Leaves(Max0(About(f, s)))
  BY DEF Version, Leaves, About

\* A version is the number of a diff, 0 or Absent.
LEMMA VersionRange ==
    ASSUME BTypes, NEW f, NEW s \in 0..tip
    PROVE  Version(f, s) \in Absent..tip /\ Version(f, s) \in Versions
  <1>1. tip \in Nat /\ MaxDiffs \in Nat /\ tip <= MaxDiffs
        BY TipFacts
  <1>2. PICK last : last = Max0(About(f, s))
        OBVIOUS
  <1>3. s \in Nat /\ About(f, s) \in SUBSET (1..s)
        BY <1>1 DEF About
  <1>4. last \in 0..s
    <2>1. last \in About(f, s) \cup {0}
          BY <1>2, <1>3, MaxFacts
    <2> QED
        BY <1>3, <2>1
  <1>5. Version(f, s) = Absent \/ Version(f, s) = last
        BY <1>2, VersionIs DEF Leaves
  <1> QED
      BY <1>1, <1>4, <1>5 DEF Absent, Versions

\* A feature that no later diff is about has its last version from then on.
LEMMA QuietVersion ==
    ASSUME BTypes, NEW f, NEW s \in Nat, NEW t \in s..tip, Quiet(f, s)
    PROVE  Version(f, t) = Version(f, tip)
  <1>1. tip \in Nat
        BY TipFacts
  <1>2. About(f, t) = About(f, tip)
    <2>1. ASSUME NEW i \in 1..tip, diffs[i].of = f PROVE i \in 1..t
      <3>1. i <= s
            BY <2>1 DEF Quiet
      <3> QED
          BY <1>1, <3>1
    <2>2. \A i \in 1..t : i \in 1..tip
          BY <1>1
    <2> QED
        BY <2>1, <2>2 DEF About
  <1> QED
      BY <1>2, VersionIs

\* The last diff about a feature makes its version.
LEMMA VersionLast ==
    ASSUME BTypes, NEW s \in 1..tip, Quiet(diffs[s].of, s)
    PROVE  Version(diffs[s].of, tip) = IF diffs[s].deleted THEN Absent ELSE s
  <1>1. tip \in Nat
        BY TipFacts
  <1>2. PICK f : f = diffs[s].of
        OBVIOUS
  <1>3. s \in About(f, tip) /\ About(f, tip) \in SUBSET (1..tip)
        BY <1>2 DEF About
  <1>4. \A i \in About(f, tip) : i <= s
        BY <1>2 DEF About, Quiet
  <1>5. PICK last : last = Max0(About(f, tip))
        OBVIOUS
  <1>6. last \in About(f, tip) \cup {0} /\ s <= last
        BY <1>1, <1>3, <1>5, MaxFacts
  <1>7. last = s
        BY <1>1, <1>3, <1>4, <1>6
  <1>8. Version(f, tip) = Leaves(s)
        BY <1>5, <1>7, VersionIs
  <1>9. s > 0
        BY <1>1
  <1> QED
      BY <1>2, <1>8, <1>9 DEF Leaves

\* A published diff is about one feature; the versions of the others stay.
LEMMA PublishFacts ==
    ASSUME BTypes, NEW d \in Diffs, diffs' = Append(diffs, d)
    PROVE  /\ tip' = tip + 1 /\ diffs' \in Seq(Diffs)
           /\ \A f, s : Quiet(f, s)' => Quiet(f, s)
           /\ \A f : \A s \in 0..tip : Quiet(f, s)' => f # d.of
           /\ \A f : f # d.of => Version(f, tip)' = Version(f, tip)
  <1>1. tip \in Nat /\ diffs \in Seq(Diffs)
        BY TipFacts DEF BTypes
  <1>2. /\ tip' = tip + 1 /\ diffs' \in Seq(Diffs) /\ diffs'[tip + 1] = d
        /\ \A i \in 1..tip : diffs'[i] = diffs[i]
        BY <1>1 DEF tip
  <1>3. ASSUME NEW f, NEW s, Quiet(f, s)' PROVE Quiet(f, s)
    <2>1. \A i \in 1..tip : i \in 1..(tip + 1)
          BY <1>1
    <2>2. \A i \in 1..tip' : diffs'[i].of = f => i <= s
          BY <1>3 DEF Quiet
    <2> QED
        BY <1>2, <2>1, <2>2 DEF Quiet
  <1>4. ASSUME NEW f, NEW s \in 0..tip, Quiet(f, s)' PROVE f # d.of
    <2>1. PICK i : i = tip + 1
          OBVIOUS
    <2>2. i \in 1..(tip + 1) /\ ~(i <= s)
          BY <1>1, <2>1
    <2>3. \A j \in 1..tip' : diffs'[j].of = f => j <= s
          BY <1>4 DEF Quiet
    <2> QED
        BY <1>2, <2>1, <2>2, <2>3
  <1>5. ASSUME NEW f, f # d.of PROVE Version(f, tip)' = Version(f, tip)
    <2>1. About(f, tip)' = About(f, tip)
      <3>1. About(f, tip)' = {i \in 1..(tip + 1) : diffs'[i].of = f}
            BY <1>2 DEF About
      <3>2. \A i : i \in 1..(tip + 1) <=> i \in 1..tip \/ i = tip + 1
            BY <1>1
      <3> QED
          BY <1>2, <1>5, <3>1, <3>2 DEF About
    <2>2. PICK last : last = Max0(About(f, tip))
          OBVIOUS
    <2>3. last \in 0..tip
      <3>1. About(f, tip) \in SUBSET (1..tip)
            BY DEF About
      <3>2. last \in About(f, tip) \cup {0}
            BY <1>1, <2>2, <3>1, MaxFacts
      <3> QED
          BY <1>1, <3>1, <3>2
    <2>4. Max0(About(f, tip))' = last
          BY <2>1, <2>2 DEF Max0
    <2>5. Leaves(last)' = Leaves(last)
      <3>1. last > 0 => last \in 1..tip
            BY <1>1, <2>3
      <3>2. last > 0 => diffs'[last] = diffs[last]
            BY <1>2, <3>1
      <3> QED
          BY <3>2 DEF Leaves
    <2>6. Version(f, tip)' = Leaves(Max0(About(f, tip)))'
          BY DEF Version, Leaves, About
    <2>7. Leaves(Max0(About(f, tip)))' = Leaves(last)'
          BY <2>4 DEF Leaves
    <2> QED
        BY <2>2, <2>5, <2>6, <2>7, VersionIs
  <1> QED
      BY <1>2, <1>3, <1>4, <1>5

\* Nothing about versions changes while no diff is published.
LEMMA WorldStays ==
    ASSUME diffs' = diffs
    PROVE  /\ tip' = tip /\ \A f, s : (Quiet(f, s)' <=> Quiet(f, s)) /\ Version(f, s)' = Version(f, s)
           /\ \A f : Version(f, tip)' = Version(f, tip)
           /\ \A r, base, vs : Sound(r, base, vs)' <=> Sound(r, base, vs)
  <1>1. tip' = tip /\ \A f, s : (Quiet(f, s)' <=> Quiet(f, s)) /\ Version(f, s)' = Version(f, s)
        BY DEF tip, Quiet, Version, Max0
  <1>2. \A f : Version(f, tip)' = Version(f, tip)
        BY DEF tip, Version, Max0
  <1> QED
      BY <1>1, <1>2 DEF Sound

----------------------------------------------------------------------------
(* OpenStreetMap and the master *)

\* What was read of a region before a diff is published is as sound after it.
LEMMA PublishSound ==
    ASSUME BTypes, NEW d \in Diffs, diffs' = Append(diffs, d),
           NEW r, NEW base \in 0..tip, NEW vs, Sound(r, base, vs)
    PROVE  Sound(r, base, vs)'
  <1> SUFFICES ASSUME NEW f \in InRegion[r], Quiet(f, base)'
               PROVE  vs[f] = Version(f, tip)'
      BY DEF Sound
  <1>1. f # d.of /\ Quiet(f, base)
        BY PublishFacts
  <1> QED
      BY <1>1, PublishFacts DEF Sound

\* The diff is about a feature that is no longer settled; the others stay.
LEMMA PublishKeeps ==
    ASSUME BInv, NEW f \in Features, NEW deleted \in BOOLEAN, PublishDiff(f, deleted)
    PROVE  BInv'
  <1> USE DEF BInv
  <1>1. PICK d \in Diffs : d.of = f /\ diffs' = Append(diffs, d)
        BY DEF PublishDiff, Diffs
  <1>2. /\ tip < MaxDiffs
        /\ UNCHANGED <<master, export, bundles, row, tags, sequence, nodes_file, gist,
                       installed_regions, install, installs, breaks, unseeded, bare, flaw, poll>>
        BY DEF PublishDiff, exportVars, dataVars, targetVars
  <1>3. /\ tip' = tip + 1 /\ diffs' \in Seq(Diffs)
        /\ \A g, s : Quiet(g, s)' => Quiet(g, s)
        /\ \A g : \A s \in 0..tip : Quiet(g, s)' => g # f
        /\ \A g : g # f => Version(g, tip)' = Version(g, tip)
        BY <1>1, PublishFacts
  <1>4. tip \in Nat /\ master \in 0..tip /\ sequence \in Absent..tip /\ MaxDiffs \in Nat
        BY TipFacts DEF BTypes
  <1>5. BTypes'
    <2>1. tip' <= MaxDiffs /\ master \in 0..tip' /\ sequence \in Absent..tip'
          BY <1>2, <1>3, <1>4 DEF Absent
    <2> QED
        BY <1>2, <1>3, <2>1 DEF BTypes
  <1>6. \A t \in 0..tip : t \in 0..tip'
        BY <1>3, <1>4
  <1>7. \A t \in 0..master : t \in 0..tip
        BY <1>4
  <1>8. Exporting'
    <2>1. ASSUME export.pc \in {"tags", "nodes"} PROVE Sound(export.of, export.base, export.row)'
      <3>1. PICK r, base, vs : r = export.of /\ base = export.base /\ vs = export.row
            OBVIOUS
      <3>2. base \in 0..tip /\ Sound(r, base, vs)
            BY <1>7, <2>1, <3>1 DEF Exporting
      <3>3. Sound(r, base, vs)'
            BY <1>1, <3>2, PublishSound
      <3> QED
          BY <1>2, <3>1, <3>3
    <2>2. ASSUME export.pc = "nodes" PROVE Sound(export.of, export.base, export.tags)'
      <3>1. PICK r, base, vs : r = export.of /\ base = export.base /\ vs = export.tags
            OBVIOUS
      <3>2. base \in 0..tip /\ Sound(r, base, vs)
            BY <1>7, <2>2, <3>1 DEF Exporting
      <3>3. Sound(r, base, vs)'
            BY <1>1, <3>2, PublishSound
      <3> QED
          BY <1>2, <3>1, <3>3
    <2> QED
        BY <1>2, <1>6, <2>1, <2>2 DEF Exporting
  <1>9. BundlesSound'
    <2> SUFFICES ASSUME NEW b \in 1..Len(bundles) PROVE SoundBundle(bundles[b])'
        BY <1>2 DEF BundlesSound
    <2>1. PICK B : B = bundles[b]
          OBVIOUS
    <2>2. SoundBundle(B)
          BY <2>1 DEF BundlesSound
    <2>3. B.base \in 0..tip
          BY <1>7, <2>2 DEF SoundBundle
    <2>4. PICK r, base, rs, ts : r = B.of /\ base = B.base /\ rs = B.row /\ ts = B.tags
          OBVIOUS
    <2>5. Sound(r, base, rs)' /\ Sound(r, base, ts)'
          BY <1>1, <2>2, <2>3, <2>4, PublishSound DEF SoundBundle
    <2>6. SoundBundle(B)'
          BY <1>2, <1>6, <2>2, <2>4, <2>5 DEF SoundBundle
    <2> QED
        BY <1>2, <2>1, <2>6
  <1>10. Usable' /\ Unseeded'
        BY <1>2 DEF Usable, Located, Unseeded, bundle, region
  <1>11. PollLoop'
    <2>1. \A t : t <= tip /\ t \in Nat => t <= tip'
          BY <1>3, <1>4
    <2>2. poll.remote \in Nat
          BY DEF BTypes
    <2> QED
        BY <1>2, <2>1, <2>2 DEF PollLoop
  <1>12. \A g : Kept(g)' <=> Kept(g)
        BY <1>2 DEF Kept, InUnseeded
  <1>13. RowsKept'
        BY <1>2, <1>12 DEF RowsKept
  <1>14. ASSUME flaw' = {} PROVE SettledExact' /\ PollInStep' /\ RowsLeft'
    <2>1. flaw = {}
          BY <1>2, <1>14
    <2>2. ASSUME NEW g \in Features, Kept(g), Settled(g)' PROVE Exact(g)'
      <3>1. Settled(g)
            BY <1>2, <1>3, <2>2 DEF Settled
      <3>2. g # f
        <4>1. CASE sequence # Absent
          <5>1. sequence \in 0..tip
                BY <1>4, <4>1 DEF Absent
          <5> QED
              BY <1>2, <1>3, <2>2, <4>1, <5>1 DEF Settled
        <4>2. CASE InUnseeded(g)
          <5>1. PICK b \in unseeded : g \in InRegion[bundles[b].of]
                BY <4>2 DEF InUnseeded
          <5>2. bundles[b].base \in 0..tip
                BY <1>7 DEF BTypes, BundlesSound, SoundBundle
          <5> QED
              BY <1>2, <1>3, <2>2, <5>1, <5>2 DEF Settled
        <4> QED
            BY <2>2, <4>1, <4>2 DEF Kept
      <3>3. Exact(g)
            BY <2>1, <2>2, <3>1 DEF SettledExact
      <3> QED
          BY <1>2, <1>3, <3>2, <3>3 DEF Exact
    <2>3. SettledExact'
          BY <1>12, <2>2 DEF SettledExact
    <2>4. PollInStep'
          BY <1>2, <2>1 DEF PollInStep
    <2>5. ASSUME NEW b \in unseeded, NEW g \in InRegion[bundles[b].of], Uncovered(g)',
                 Quiet(g, bundles[b].base)', Version(g, tip)' # Absent
          PROVE  row'[g] # Absent
      <3>1. PICK base : base = bundles[b].base
            OBVIOUS
      <3>2. base \in 0..tip
            BY <1>7, <3>1 DEF BTypes, BundlesSound, SoundBundle
      <3>3. Quiet(g, base)'
            BY <1>2, <2>5, <3>1
      <3>4. g # f /\ Quiet(g, base)
            BY <1>3, <3>2, <3>3
      <3>5. Uncovered(g)
            BY <1>2, <2>5 DEF Uncovered
      <3> QED
          BY <1>2, <1>3, <2>1, <2>5, <3>1, <3>4, <3>5 DEF RowsLeft
    <2>6. RowsLeft'
          BY <1>2, <2>5 DEF RowsLeft
    <2> QED
        BY <2>3, <2>4, <2>6
  <1> QED
      BY <1>5, <1>8, <1>9, <1>10, <1>11, <1>13, <1>14

\* What poll and the rows satisfy depends on the diffs, the bundles, the rows,
\* the sequence and poll only.
LEMMA DataStays ==
    ASSUME BInv, UNCHANGED <<diffs, row, tags, sequence, installed_regions, unseeded, flaw, poll>>,
           \A b \in 1..Len(bundles) : bundles'[b] = bundles[b]
    PROVE  /\ PollLoop' /\ RowsKept'
           /\ flaw' = {} => SettledExact' /\ PollInStep' /\ RowsLeft'
  <1> USE DEF BInv
  <1>1. unseeded \in SUBSET (1..Len(bundles))
        BY DEF BTypes
  <1>2. \A b \in unseeded : bundles'[b] = bundles[b]
        BY <1>1
  <1>3. PollLoop'
        BY WorldStays DEF PollLoop
  <1>4. \A f : Kept(f)' <=> Kept(f)
        BY <1>2 DEF Kept, InUnseeded
  <1>5. RowsKept'
        BY <1>4 DEF RowsKept
  <1>6. ASSUME flaw' = {} PROVE SettledExact' /\ PollInStep' /\ RowsLeft'
    <2>1. \A f : Settled(f)' => Settled(f)
      <3> SUFFICES ASSUME NEW f, Settled(f)' PROVE Settled(f)
          OBVIOUS
      <3>1. PICK s : s = sequence
            OBVIOUS
      <3>2. sequence # Absent => Quiet(f, s)'
            BY <3>1 DEF Settled
      <3>3. ASSUME NEW b \in unseeded, f \in InRegion[bundles[b].of]
            PROVE  Quiet(f, bundles[b].base)
        <4>1. PICK base : base = bundles[b].base
              OBVIOUS
        <4>2. Quiet(f, base)'
              BY <1>2, <3>3, <4>1 DEF Settled
        <4> QED
            BY <4>1, <4>2, WorldStays
      <3> QED
          BY <3>1, <3>2, <3>3, WorldStays DEF Settled
    <2>2. SettledExact'
      <3> SUFFICES ASSUME NEW f \in Features, Kept(f)', Settled(f)' PROVE Exact(f)'
          BY DEF SettledExact
      <3>1. Exact(f)
            BY <1>4, <1>6, <2>1 DEF SettledExact
      <3> QED
          BY <3>1, WorldStays DEF Exact
    <2>3. PollInStep'
          BY <1>2, <1>6 DEF PollInStep
    <2>4. RowsLeft'
      <3> SUFFICES ASSUME NEW b \in unseeded, NEW f \in InRegion[bundles[b].of], Uncovered(f)',
                          Quiet(f, bundles[b].base)', Version(f, tip)' # Absent
                   PROVE  row[f] # Absent
          BY <1>2 DEF RowsLeft
      <3>1. PICK base : base = bundles[b].base
            OBVIOUS
      <3>2. Quiet(f, base)'
            BY <1>2, <3>1
      <3>3. Quiet(f, bundles[b].base) /\ Version(f, tip) # Absent
            BY <3>1, <3>2, WorldStays
      <3>4. Uncovered(f)
            BY DEF Uncovered
      <3> QED
          BY <1>6, <3>3, <3>4 DEF RowsLeft
    <2> QED
        BY <2>2, <2>3, <2>4
  <1> QED
      BY <1>3, <1>5, <1>6

\* While the node file stays, so do the coordinates in it; more bundles do not matter.
LEMMA LocatedStays ==
    ASSUME UNCHANGED nodes_file,
           \A b \in 1..Len(bundles) : b \in 1..Len(bundles') /\ bundles'[b] = bundles[b]
    PROVE  \A r : Located(r) => Located(r)'
  BY DEF Located

\* The master's side touches nothing of the target's.
LEMMA TargetStays ==
    ASSUME BInv,
           UNCHANGED <<diffs, row, tags, sequence, nodes_file, gist, installed_regions, install,
                       breaks, unseeded, bare, flaw, poll>>,
           \A b \in 1..Len(bundles) : b \in 1..Len(bundles') /\ bundles'[b] = bundles[b]
    PROVE  /\ Usable' /\ Unseeded' /\ PollLoop' /\ RowsKept'
           /\ flaw' = {} => SettledExact' /\ PollInStep' /\ RowsLeft'
  <1> USE DEF BInv
  <1>1. /\ unseeded \in SUBSET (1..Len(bundles))
        /\ install.pc # "idle" => install.of \in 1..Len(bundles)
        BY DEF BTypes
  <1>2. \A b \in unseeded : bundles'[b] = bundles[b]
        BY <1>1
  <1>3. install.pc # "idle" => bundle' = bundle /\ region' = region
        BY <1>1 DEF bundle, region
  <1>4. Usable'
        BY <1>3, LocatedStays DEF Usable
  <1>5. Unseeded'
        BY <1>2, <1>3 DEF Unseeded
  <1> QED
      BY <1>4, <1>5, DataStays

\* The export keeps what it has read, and the bundles.
LEMMA ExportStays ==
    ASSUME BInv, UNCHANGED <<diffs, export, bundles>>, master' \in master..tip
    PROVE  Exporting' /\ BundlesSound'
  <1> USE DEF BInv
  <1>1. \A t \in 0..master : t \in 0..master'
        BY TipFacts
  <1>2. \A t : \A u \in t..master : t \in Nat => u \in t..master'
        BY TipFacts
  <1>3. tip' = tip /\ \A r, base, vs : Sound(r, base, vs)' <=> Sound(r, base, vs)
        BY WorldStays
  <1>4. Exporting'
    <2>1. PICK e : e = export
          OBVIOUS
    <2>2. /\ e.pc \in {"tags", "nodes"} => Sound(e.of, e.base, e.row)
          /\ e.pc = "nodes" => Sound(e.of, e.base, e.tags)
          BY <2>1 DEF Exporting
    <2>3. /\ e.pc \in {"tags", "nodes"} => Sound(e.of, e.base, e.row)'
          /\ e.pc = "nodes" => Sound(e.of, e.base, e.tags)'
          BY <1>3, <2>2
    <2>4. e' = e /\ e = export'
          BY <2>1
    <2>5. e.pc = "tags" => e.read \in e.base..master'
          BY <1>2, <2>1 DEF Exporting
    <2>6. e.pc # "idle" => e.of \in Regions /\ e.base \in 0..master' /\ e.exported_at \in 0..tip'
          BY <1>1, <1>3, <2>1 DEF Exporting
    <2> QED
        BY <2>1, <2>3, <2>4, <2>5, <2>6 DEF Exporting
  <1>5. BundlesSound'
    <2> SUFFICES ASSUME NEW b \in 1..Len(bundles) PROVE SoundBundle(bundles[b])'
        BY DEF BundlesSound
    <2>1. PICK B : B = bundles[b]
          OBVIOUS
    <2>2. SoundBundle(B)
          BY <2>1 DEF BundlesSound
    <2>3. SoundBundle(B)'
          BY <1>1, <1>3, <2>2 DEF SoundBundle
    <2> QED
        BY <2>1, <2>3
  <1> QED
      BY <1>4, <1>5

\* The master applies the next diff.
LEMMA MasterKeeps == ASSUME BInv, MasterPolls PROVE BInv'
  <1> USE DEF BInv
  <1>1. /\ master < tip /\ master' = master + 1
        /\ UNCHANGED <<diffs, export, bundles, row, tags, sequence, nodes_file, gist,
                       installed_regions, install, installs, breaks, unseeded, bare, flaw, poll>>
        BY DEF MasterPolls, exportVars, dataVars, targetVars
  <1>2. master' \in master..tip /\ master' \in 0..tip /\ tip' = tip
        BY <1>1, TipFacts, WorldStays
  <1>3. BTypes'
        BY <1>1, <1>2 DEF BTypes
  <1> QED
      BY <1>1, <1>2, <1>3, ExportStays, TargetStays

----------------------------------------------------------------------------
(* The export *)

\* A step of the export that finishes no bundle.
LEMMA ExportStep ==
    ASSUME BInv, Exporting',
           UNCHANGED <<diffs, master, bundles, row, tags, sequence, nodes_file, gist,
                       installed_regions, install, installs, breaks, unseeded, bare, flaw, poll>>
    PROVE  BInv'
  <1> USE DEF BInv
  <1>1. tip' = tip /\ \A r, base, vs : Sound(r, base, vs)' <=> Sound(r, base, vs)
        BY WorldStays
  <1>2. BTypes'
        BY <1>1 DEF BTypes
  <1>3. BundlesSound'
    <2> SUFFICES ASSUME NEW b \in 1..Len(bundles) PROVE SoundBundle(bundles[b])'
        BY DEF BundlesSound
    <2>1. PICK B : B = bundles[b]
          OBVIOUS
    <2>2. SoundBundle(B)
          BY <2>1 DEF BundlesSound
    <2>3. SoundBundle(B)'
          BY <1>1, <2>2 DEF SoundBundle
    <2> QED
        BY <2>1, <2>3
  <1> QED
      BY <1>2, <1>3, TargetStays

\* The header is written.
LEMMA ManifestKeeps == ASSUME BInv, NEW r \in Regions, WriteManifest(r) PROVE BInv'
  <1> USE DEF BInv
  <1>1. UNCHANGED <<diffs, master, bundles, row, tags, sequence, nodes_file, gist,
                    installed_regions, install, installs, breaks, unseeded, bare, flaw, poll>>
        BY DEF WriteManifest, worldVars, dataVars, targetVars
  <1>2. export' = [pc |-> "rows", of |-> r, exported_at |-> tip, base |-> master, read |-> 0,
                   row |-> <<>>, tags |-> <<>>]
        BY DEF WriteManifest, NoExport
  <1>3. tip' = tip /\ tip \in 0..tip /\ master \in 0..master
        BY <1>1, TipFacts, WorldStays
  <1>4. Exporting'
        BY <1>1, <1>2, <1>3 DEF Exporting
  <1> QED
      BY <1>1, <1>4, ExportStep

\* Rows and tags that are read from the base on are sound, whatever the times.
LEMMA ReadIsSound ==
    ASSUME BTypes, NEW r \in Regions, NEW base \in 0..master, NEW from \in base..master,
           NEW at \in [InRegion[r] -> from..master]
    PROVE  /\ \A f \in InRegion[r] : Version(f, at[f]) \in Versions
           /\ \A f \in InRegion[r] : Quiet(f, base) => Version(f, at[f]) = Version(f, tip)
  <1>1. tip \in Nat /\ master \in Nat /\ master <= tip
        BY TipFacts
  <1>2. ASSUME NEW f \in InRegion[r] PROVE at[f] \in 0..tip /\ at[f] \in base..tip
    <2>1. at[f] \in from..master
          OBVIOUS
    <2> QED
        BY <1>1, <2>1
  <1>3. base \in Nat
        BY <1>1
  <1> QED
      BY <1>2, <1>3, VersionRange, QuietVersion

\* The parent pass.
LEMMA ReadRowsKeeps == ASSUME BInv, ReadRows PROVE BInv'
  <1> USE DEF BInv
  <1>1. /\ UNCHANGED <<diffs, master, bundles, row, tags, sequence, nodes_file, gist,
                       installed_regions, install, installs, breaks, unseeded, bare, flaw, poll>>
        /\ export.pc = "rows"
        BY DEF ReadRows, worldVars, dataVars, targetVars
  <1>2. PICK r, base, when : r = export.of /\ base = export.base /\ when = export.exported_at
        OBVIOUS
  <1>3. r \in Regions /\ base \in 0..master /\ when \in 0..tip
        BY <1>1, <1>2 DEF Exporting
  <1>4. PICK at \in [InRegion[r] -> base..master] :
           export' = [export EXCEPT !.pc = "tags", !.read = master,
                                    !.row = [f \in InRegion[r] |-> Version(f, at[f])]]
        BY <1>2 DEF ReadRows, ReadTimes, Members
  <1>5. PICK vs : vs = [f \in InRegion[r] |-> Version(f, at[f])]
        OBVIOUS
  <1>6. Sound(r, base, vs)
    <2>1. base \in base..master
          BY <1>3, TipFacts
    <2> QED
        BY <1>3, <1>5, <2>1, ReadIsSound DEF Sound
  <1>7. export' = [pc |-> "tags", of |-> r, exported_at |-> when, base |-> base, read |-> master,
                   row |-> vs, tags |-> export.tags]
        BY <1>2, <1>4, <1>5 DEF Exporting
  <1>8. Sound(r, base, vs)' /\ tip' = tip
        BY <1>1, <1>6, WorldStays
  <1>9. master \in base..master
        BY <1>3, TipFacts
  <1>10. Exporting'
    <2>1. PICK e : e = export'
          OBVIOUS
    <2>2. e.pc = "tags" /\ e.of = r /\ e.base = base /\ e.row = vs /\ e.exported_at = when /\ e.read = master
          BY <1>7, <2>1
    <2>3. Sound(export.of, export.base, export.row)'
          BY <1>8, <2>1, <2>2
    <2> QED
        BY <1>1, <1>3, <1>7, <1>8, <1>9, <2>1, <2>2, <2>3 DEF Exporting
  <1> QED
      BY <1>1, <1>10, ExportStep

\* The child pass reads later, and only the tags of the rows that were found.
LEMMA ReadTagsKeeps == ASSUME BInv, ReadTags PROVE BInv'
  <1> USE DEF BInv
  <1>1. /\ UNCHANGED <<diffs, master, bundles, row, tags, sequence, nodes_file, gist,
                       installed_regions, install, installs, breaks, unseeded, bare, flaw, poll>>
        /\ export.pc = "tags"
        BY DEF ReadTags, worldVars, dataVars, targetVars
  <1>2. PICK r, base, when, rs : r = export.of /\ base = export.base /\ when = export.exported_at /\ rs = export.row
        OBVIOUS
  <1>3. /\ r \in Regions /\ base \in 0..master /\ when \in 0..tip /\ Sound(r, base, rs)
        /\ export.read \in base..master
        BY <1>1, <1>2 DEF Exporting
  <1>4. PICK at \in [InRegion[r] -> export.read..master] :
           export' = [export EXCEPT !.pc = "nodes",
                                    !.tags = [f \in InRegion[r] |->
                                                 IF export.row[f] # Absent THEN Version(f, at[f]) ELSE Absent]]
        BY <1>2 DEF ReadTags, ReadTimes, Members, lookupBitmask
  <1>5. PICK vs : vs = [f \in InRegion[r] |-> IF export.row[f] # Absent THEN Version(f, at[f]) ELSE Absent]
        OBVIOUS
  <1>6. Sound(r, base, vs)
    <2>1. /\ \A f \in InRegion[r] : Version(f, at[f]) \in Versions
          /\ \A f \in InRegion[r] : Quiet(f, base) => Version(f, at[f]) = Version(f, tip)
          BY <1>3, ReadIsSound
    <2>2. Absent \in Versions
          BY TipFacts DEF Absent, Versions
    <2> QED
        BY <1>2, <1>3, <1>5, <2>1, <2>2 DEF Sound
  <1>7. export' = [pc |-> "nodes", of |-> r, exported_at |-> when, base |-> base, read |-> export.read,
                   row |-> rs, tags |-> vs]
        BY <1>2, <1>4, <1>5 DEF Exporting
  <1>8. Sound(r, base, vs)' /\ Sound(r, base, rs)' /\ tip' = tip
        BY <1>1, <1>3, <1>6, WorldStays
  <1>9. Exporting'
    <2>1. PICK e : e = export'
          OBVIOUS
    <2>2. e.pc = "nodes" /\ e.of = r /\ e.base = base /\ e.row = rs /\ e.tags = vs /\ e.exported_at = when
          BY <1>7, <2>1
    <2>3. Sound(export.of, export.base, export.row)' /\ Sound(export.of, export.base, export.tags)'
          BY <1>8, <2>1, <2>2
    <2> QED
        BY <1>1, <1>3, <1>7, <1>8, <2>1, <2>2, <2>3 DEF Exporting
  <1> QED
      BY <1>1, <1>9, ExportStep

\* The coordinates are added and the bundle is finished.
LEMMA BundleKeeps == ASSUME BInv, Bundle PROVE BInv'
  <1> USE DEF BInv
  <1>1. /\ UNCHANGED <<diffs, master, row, tags, sequence, nodes_file, gist,
                       installed_regions, install, installs, breaks, unseeded, bare, flaw, poll>>
        /\ export.pc = "nodes" /\ export' = NoExport
        BY DEF Bundle, worldVars, dataVars, targetVars
  <1>2. PICK slice \in Slices :
           bundles' = Append(bundles,
              [of |-> export.of, base |-> export.base, row |-> export.row, tags |-> export.tags,
               nodes |-> {f \in Members : Version(f, master) # Absent}, slice |-> slice,
               exported_at |-> IF LateHeader THEN tip ELSE export.exported_at])
        BY DEF Bundle
  <1>3. PICK B :
           /\ bundles' = Append(bundles, B)
           /\ B = [of |-> export.of, base |-> export.base, row |-> export.row, tags |-> export.tags,
                   nodes |-> {f \in Members : Version(f, master) # Absent}, slice |-> slice,
                   exported_at |-> IF LateHeader THEN tip ELSE export.exported_at]
        BY <1>2
  <1>4. SoundBundle(B)
    <2>1. /\ export.of \in Regions /\ export.base \in 0..master /\ export.exported_at \in 0..tip
          /\ Sound(export.of, export.base, export.row) /\ Sound(export.of, export.base, export.tags)
          BY <1>1 DEF Exporting
    <2>2. Members \subseteq Features
          BY <2>1, BundleAssumption DEF Members
    <2>3. tip \in 0..tip
          BY TipFacts
    <2>4. B.nodes \subseteq Features /\ B.exported_at \in 0..tip
          BY <1>3, <2>1, <2>2, <2>3
    <2> QED
        BY <1>3, <2>1, <2>4 DEF SoundBundle
  <1>5. B \in Bundles
    <2>1. B.row \in ReadVersions /\ B.tags \in ReadVersions
          BY <1>4 DEF SoundBundle, Sound, ReadVersions
    <2>2. B.base \in Nat /\ B.exported_at \in Nat
          BY <1>4, TipFacts DEF SoundBundle
    <2> QED
        BY <1>2, <1>3, <1>4, <2>1, <2>2 DEF SoundBundle, Bundles
  <1>6. /\ bundles' \in Seq(Bundles) /\ Len(bundles) \in Nat /\ Len(bundles') = Len(bundles) + 1
        /\ bundles'[Len(bundles) + 1] = B /\ \A b \in 1..Len(bundles) : bundles'[b] = bundles[b]
    <2>1. bundles \in Seq(Bundles)
          BY DEF BTypes
    <2> QED
        BY <1>3, <1>5, <2>1
  <1>7. \A b \in 1..Len(bundles) : b \in 1..Len(bundles')
        BY <1>6
  <1>8. tip' = tip /\ \A r, base, vs : Sound(r, base, vs)' <=> Sound(r, base, vs)
        BY <1>1, WorldStays
  <1>9. BTypes'
        BY <1>1, <1>6, <1>7, <1>8 DEF BTypes
  <1>10. Exporting'
    <2>1. export' = [pc |-> "idle", of |-> CHOOSE r \in Regions : TRUE, exported_at |-> 0, base |-> 0,
                     read |-> 0, row |-> <<>>, tags |-> <<>>]
          BY <1>1 DEF NoExport
    <2> QED
        BY <2>1 DEF Exporting
  <1>11. BundlesSound'
    <2> SUFFICES ASSUME NEW b \in 1..Len(bundles') PROVE SoundBundle(bundles[b])'
        BY DEF BundlesSound
    <2>1. PICK C : C = bundles'[b]
          OBVIOUS
    <2>2. b = Len(bundles) + 1 \/ b \in 1..Len(bundles)
          BY <1>6
    <2>3. SoundBundle(C)
          BY <1>4, <1>6, <2>1, <2>2 DEF BundlesSound
    <2>4. SoundBundle(C)'
          BY <1>1, <1>8, <2>3 DEF SoundBundle
    <2> QED
        BY <2>1, <2>4
  <1> QED
      BY <1>1, <1>6, <1>7, <1>9, <1>10, <1>11, TargetStays

----------------------------------------------------------------------------
(* The install *)

\* A step of an install that leaves the rows, the sequence and the registered
\* regions alone.
LEMMA InstallStep ==
    ASSUME BInv,
           UNCHANGED <<diffs, master, export, bundles, row, tags, sequence, installed_regions,
                       unseeded, flaw, poll>>, bare' \in SUBSET Regions,
           install' \in [pc : Steps, of : Nat], install'.pc # "idle" => install'.of \in 1..Len(bundles),
           nodes_file' \in [state : {"none", "torn", "whole"}, has : SUBSET Features],
           gist' \in BOOLEAN, breaks' \in Nat, Usable',
           install'.pc \in {"index", "nodes", "register", "seed"} => install'.of \in unseeded
    PROVE  BInv'
  <1> USE DEF BInv
  <1>1. master' \in master..tip /\ tip' = tip
        BY TipFacts, WorldStays
  <1>2. BTypes'
        BY <1>1 DEF BTypes
  <1>3. Unseeded'
        BY DEF Unseeded
  <1> QED
      BY <1>1, <1>2, <1>3, ExportStays, DataStays

\* What is known of an install under way.
LEMMA InstallFacts ==
    ASSUME BInv
    PROVE  /\ install \in [pc : Steps, of : Nat] /\ gist \in BOOLEAN /\ breaks \in Nat
           /\ bare \in SUBSET Regions
           /\ nodes_file \in [state : {"none", "torn", "whole"}, has : SUBSET Features]
           /\ install.pc # "idle" => install.of \in 1..Len(bundles) /\ SoundBundle(bundle)
           /\ NoInstall \in [pc : Steps, of : Nat] /\ NoInstall.pc = "idle"
  BY DEF BInv, BTypes, BundlesSound, bundle, NoInstall, Steps

\* ensureSchema drops the indexes; the install begins.
LEMMA PrepareKeeps == ASSUME BInv, NEW b \in 1..Len(bundles), PrepareSchema(b) PROVE BInv'
  <1>1. /\ UNCHANGED <<diffs, master, export, bundles, row, tags, sequence, installed_regions,
                       unseeded, bare, flaw, poll, nodes_file, breaks>>
        /\ install.pc = "idle" /\ install' = [pc |-> "script", of |-> b] /\ gist' = FALSE
        BY DEF PrepareSchema, worldVars, exportVars, dataVars, At, dropGistIndexes
  <1>2. install' \in [pc : Steps, of : Nat] /\ install'.pc = "script" /\ install'.of = b
        BY <1>1 DEF Steps, BInv, BTypes
  <1>3. Usable'
        BY <1>1, <1>2 DEF BInv, Usable, Located
  <1> QED
      BY <1>1, <1>2, <1>3, InstallFacts, InstallStep

\* The indexes are rebuilt.
LEMMA CreateIndexesKeeps == ASSUME BInv, CreateIndexes PROVE BInv'
  <1>1. /\ UNCHANGED <<diffs, master, export, bundles, row, tags, sequence, installed_regions,
                       unseeded, bare, flaw, poll, nodes_file, breaks>>
        /\ install.pc = "index" /\ install' = [install EXCEPT !.pc = "nodes"] /\ gist' = TRUE
        BY DEF CreateIndexes, Proceed, worldVars, exportVars, dataVars, At, createGistIndexes
  <1>2. install' \in [pc : Steps, of : Nat] /\ install'.pc = "nodes" /\ install'.of = install.of
        BY <1>1, InstallFacts DEF Steps
  <1>3. Usable'
        BY <1>1, <1>2 DEF BInv, Usable, Located
  <1>4. install.of \in unseeded
        BY <1>1 DEF BInv, Unseeded
  <1> QED
      BY <1>1, <1>2, <1>3, <1>4, InstallFacts, InstallStep

\* The coordinates are copied or merged.
LEMMA InstallNodesKeeps == ASSUME BInv, InstallNodes PROVE BInv'
  <1>1. PICK counted \in BOOLEAN :
           /\ nodes_file' = merge(nodes_file.has, region_nodes, counted)
           /\ bare' = IF ~counted THEN bare \cup installed_regions \cup {region}
                      ELSE IF bundle.slice = "whole" THEN bare \ {region}
                      ELSE bare \cup {region}
        BY DEF InstallNodes
  <1>2. /\ UNCHANGED <<diffs, master, export, bundles, row, tags, sequence, installed_regions,
                       unseeded, flaw, poll, gist, breaks>>
        /\ install.pc = "nodes" /\ install' = [install EXCEPT !.pc = "register"]
        BY DEF InstallNodes, nodesRest, Proceed, worldVars, exportVars, dataVars, At
  <1>3. install' \in [pc : Steps, of : Nat] /\ install'.pc = "register" /\ install'.of = install.of
        BY <1>2, InstallFacts DEF Steps
  <1>4. /\ bundle' = bundle /\ region' = region /\ region = bundle.of /\ region \in Regions
        /\ bundle.nodes \subseteq Features /\ region_nodes \subseteq Features
        /\ bundle.slice = "whole" => region_nodes = bundle.nodes
        BY <1>2, <1>3, InstallFacts DEF bundle, region, region_nodes, SoundBundle
  <1>5. /\ nodes_file' \in [state : {"none", "torn", "whole"}, has : SUBSET Features]
        /\ nodes_file'.state = "whole"
        /\ counted => nodes_file'.has = nodes_file.has \cup region_nodes
        BY <1>1, <1>4, InstallFacts DEF merge
  <1>6. bare' \in SUBSET Regions
        BY <1>1, <1>4 DEF BInv, BTypes
  \* Coordinates that were there are still there, but for a lost count.
  <1>7. ASSUME NEW r \in installed_regions \ bare' PROVE Located(r)'
    <2>1. counted
          BY <1>1, <1>7
    <2>2. CASE r \in bare
      <3>1. bundle.slice = "whole" /\ r = region
            BY <1>1, <1>7, <2>1, <2>2
      <3>2. bundle.nodes \subseteq nodes_file'.has
            BY <1>4, <1>5, <2>1, <3>1
      <3>3. install.of \in 1..Len(bundles) /\ bundle = bundles[install.of]
            BY <1>2, InstallFacts DEF bundle
      <3> QED
          BY <1>2, <1>4, <1>5, <3>1, <3>2, <3>3 DEF Located
    <2>3. CASE r \notin bare
      <3>1. Located(r)
            BY <1>7, <2>3 DEF BInv, Usable
      <3> QED
          BY <1>2, <1>5, <2>1, <3>1 DEF Located
    <2> QED
        BY <2>2, <2>3
  <1>8. region \notin bare' => bundle.nodes \subseteq nodes_file'.has
        BY <1>1, <1>4, <1>5
  <1>9. Usable'
        BY <1>2, <1>3, <1>4, <1>5, <1>7, <1>8 DEF BInv, Usable
  <1>10. install.of \in unseeded
        BY <1>2 DEF BInv, Unseeded
  <1> QED
      BY <1>2, <1>3, <1>5, <1>6, <1>9, <1>10, InstallFacts, InstallStep

\* The bundle has no slice of nodes.dat.
LEMMA SkipNodesKeeps == ASSUME BInv, SkipNodes PROVE BInv'
  <1>1. /\ UNCHANGED <<diffs, master, export, bundles, row, tags, sequence, installed_regions,
                       unseeded, flaw, poll, nodes_file, gist, breaks>>
        /\ install.pc = "nodes" /\ install' = [install EXCEPT !.pc = "register"]
        /\ bare' = bare \cup {region}
        BY DEF SkipNodes, nodesRest, Proceed, worldVars, exportVars, dataVars, At
  <1>2. install' \in [pc : Steps, of : Nat] /\ install'.pc = "register" /\ install'.of = install.of
        BY <1>1, InstallFacts DEF Steps
  <1>3. region' = region /\ region \in Regions
        BY <1>1, <1>2, InstallFacts DEF bundle, region, SoundBundle
  <1>4. bare' \in SUBSET Regions
        BY <1>1, <1>3 DEF BInv, BTypes
  <1>5. \A r \in installed_regions \ bare' : Located(r)'
        BY <1>1 DEF BInv, Usable, Located
  <1>6. Usable'
        BY <1>1, <1>2, <1>3, <1>5 DEF BInv, Usable
  <1>7. install.of \in unseeded
        BY <1>1 DEF BInv, Unseeded
  <1> QED
      BY <1>1, <1>2, <1>4, <1>6, <1>7, InstallFacts, InstallStep

\* The region is not registered.
LEMMA SkipRegisterKeeps == ASSUME BInv, SkipRegister PROVE BInv'
  <1>1. /\ UNCHANGED <<diffs, master, export, bundles, row, tags, sequence, installed_regions,
                       unseeded, bare, flaw, poll, nodes_file, gist, breaks>>
        /\ install.pc = "register" /\ install' = [install EXCEPT !.pc = "seed"]
        BY DEF SkipRegister, Proceed, worldVars, exportVars, dataVars, At
  <1>2. install' \in [pc : Steps, of : Nat] /\ install'.pc = "seed" /\ install'.of = install.of
        BY <1>1, InstallFacts DEF Steps
  <1>3. bundle' = bundle /\ region' = region
        BY <1>1, <1>2 DEF bundle, region
  <1>4. Usable'
        BY <1>1, <1>2, <1>3, LocatedStays DEF BInv, Usable
  <1>5. install.of \in unseeded
        BY <1>1 DEF BInv, Unseeded
  <1> QED
      BY <1>1, <1>2, <1>4, <1>5, InstallFacts, InstallStep

\* The install ends without a sequence.
LEMMA SeedFailsKeeps == ASSUME BInv, SeedFails PROVE BInv'
  <1>1. /\ UNCHANGED <<diffs, master, export, bundles, row, tags, sequence, installed_regions,
                       unseeded, bare, flaw, poll, nodes_file, gist>>
        /\ install' = NoInstall /\ breaks' = breaks + 1
        BY DEF SeedFails, worldVars, exportVars, dataVars
  <1>2. breaks' \in Nat /\ breaks' > 0
        BY <1>1, InstallFacts
  <1>3. install' \in [pc : Steps, of : Nat] /\ install'.pc = "idle"
        BY <1>1, InstallFacts
  <1>4. Usable'
        BY <1>1, <1>2, <1>3 DEF BInv, Usable, Located
  <1> QED
      BY <1>1, <1>2, <1>3, <1>4, InstallFacts, InstallStep

\* The install breaks off, and may leave a torn first copy.
LEMMA BreaksKeeps == ASSUME BInv, InstallBreaks PROVE BInv'
  <1>1. /\ UNCHANGED <<diffs, master, export, bundles, row, tags, sequence, installed_regions,
                       unseeded, bare, flaw, poll, gist>>
        /\ install' = NoInstall /\ breaks' = breaks + 1
        /\ \/ nodes_file' = nodes_file
           \/ nodes_file.state = "none" /\ nodes_file' = [state |-> "torn", has |-> {}]
        BY DEF InstallBreaks, worldVars, exportVars, dataVars
  <1>2. breaks' \in Nat /\ breaks' > 0
        BY <1>1, InstallFacts
  <1>3. install' \in [pc : Steps, of : Nat] /\ install'.pc = "idle"
        BY <1>1, InstallFacts
  <1>4. nodes_file' \in [state : {"none", "torn", "whole"}, has : SUBSET Features]
        BY <1>1, InstallFacts
  <1>5. \A r \in installed_regions \ bare : Located(r)'
        BY <1>1 DEF BInv, Usable, Located
  <1>6. Usable'
        BY <1>1, <1>2, <1>3, <1>5 DEF Usable
  <1> QED
      BY <1>1, <1>2, <1>3, <1>4, <1>6, InstallFacts, InstallStep

\* A torn file ends the install.
LEMMA MergeThrowsKeeps == ASSUME BInv, MergeThrows PROVE BInv'
  <1>1. /\ UNCHANGED <<diffs, master, export, bundles, row, tags, sequence, installed_regions,
                       unseeded, bare, flaw, poll, nodes_file, gist, breaks>>
        /\ install.pc = "nodes" /\ install' = NoInstall
        BY DEF MergeThrows, Proceed, worldVars, exportVars, dataVars, At
  <1>2. install' \in [pc : Steps, of : Nat] /\ install'.pc = "idle"
        BY <1>1, InstallFacts
  <1>3. Usable'
        BY <1>1, <1>2 DEF BInv, Usable, Located
  <1> QED
      BY <1>1, <1>2, <1>3, InstallFacts, InstallStep

\* The script puts in the rows that are not there, with their tags.  A member
\* that did not change since the bundle's base is then exact, or was before.
LEMMA RunScriptKeeps == ASSUME BInv, RunScript PROVE BInv'
  <1> USE DEF BInv
  <1>1. /\ UNCHANGED <<diffs, master, export, bundles, sequence, nodes_file, gist, installed_regions,
                       poll, breaks, bare, flaw>>
        /\ install.pc = "script" /\ install' = [install EXCEPT !.pc = "index"]
        /\ unseeded' = unseeded \cup {install.of}
        /\ row' = [f \in Features |-> IF f \in NewIds THEN bundle.row[f] ELSE row[f]]
        /\ tags' = [f \in Features |-> IF f \in NewIds /\ bundle.tags[f] # Absent
                                       THEN Append(tags[f], bundle.tags[f]) ELSE tags[f]]
        BY DEF RunScript, Proceed, worldVars, exportVars, At
  <1>2. PICK b, B : b = install.of /\ B = bundles[b]
        OBVIOUS
  <1>3. /\ b \in 1..Len(bundles) /\ SoundBundle(B) /\ bundle = B
        /\ install' \in [pc : Steps, of : Nat] /\ install'.pc = "index" /\ install'.of = b
        BY <1>1, <1>2, InstallFacts DEF bundle, Steps
  <1>4. B.of \in Regions /\ InRegion[B.of] \subseteq Features
        BY <1>3, BundleAssumption DEF SoundBundle
  <1>5. /\ B.row \in [InRegion[B.of] -> Versions] /\ B.tags \in [InRegion[B.of] -> Versions]
        /\ \A f \in InRegion[B.of] : Quiet(f, B.base) =>
              B.row[f] = Version(f, tip) /\ B.tags[f] = Version(f, tip)
        BY <1>3 DEF SoundBundle, Sound
  <1>6. \A f : f \in NewIds <=> f \in InRegion[B.of] /\ B.row[f] # Absent /\ row[f] = Absent
        BY <1>3, <1>5 DEF NewIds
  <1>7. row \in [Features -> Versions] /\ tags \in [Features -> TagSets]
        BY DEF BTypes
  \* Row by row.
  <1>8. ASSUME NEW f \in Features
        PROVE  /\ f \notin NewIds => row'[f] = row[f] /\ tags'[f] = tags[f]
               /\ f \in NewIds => /\ row'[f] = B.row[f] /\ row'[f] # Absent
                                  /\ tags'[f] = IF B.tags[f] # Absent THEN <<B.tags[f]>> ELSE <<>>
    <2>1. CASE f \notin NewIds
          BY <1>1, <2>1
    <2>2. CASE f \in NewIds
      <3>1. tags[f] = <<>> /\ B.row[f] # Absent
            BY <1>6, <2>2 DEF RowsKept
      <3>2. row'[f] = B.row[f]
            BY <1>1, <1>3, <2>2
      <3>3. tags'[f] = IF B.tags[f] # Absent THEN Append(<<>>, B.tags[f]) ELSE <<>>
            BY <1>1, <1>3, <2>2, <3>1
      <3>4. Append(<<>>, B.tags[f]) = <<B.tags[f]>>
            OBVIOUS
      <3> QED
          BY <2>2, <3>1, <3>2, <3>3, <3>4
    <2> QED
        BY <2>1, <2>2
  <1>9. row' \in [Features -> Versions]
        BY <1>1, <1>3, <1>5, <1>6, <1>7
  <1>10. tags' \in [Features -> TagSets]
    <2>1. ASSUME NEW f \in Features PROVE tags'[f] \in TagSets
      <3>1. CASE f \notin NewIds
            BY <1>7, <1>8, <3>1
      <3>2. CASE f \in NewIds
        <4>1. B.tags[f] \in Versions
              BY <1>5, <1>6, <3>2
        <4> QED
            BY <1>8, <3>2, <4>1 DEF TagSets
      <3> QED
          BY <3>1, <3>2
    <2>2. tags' = [f \in Features |-> tags'[f]]
          BY <1>1
    <2> QED
        BY <2>1, <2>2
  <1>11. tip' = tip /\ master' \in master..tip
        BY <1>1, TipFacts, WorldStays
  <1>12. BTypes'
    <2>1. unseeded' \in SUBSET (1..Len(bundles'))
          BY <1>1, <1>2, <1>3 DEF BTypes
    <2> QED
        BY <1>1, <1>3, <1>9, <1>10, <1>11, <2>1 DEF BTypes
  <1>13. Exporting' /\ BundlesSound'
        BY <1>1, <1>11, ExportStays
  <1>14. Usable'
        BY <1>1, <1>3 DEF Usable, Located
  <1>15. Unseeded'
        BY <1>1, <1>2, <1>3 DEF Unseeded
  <1>16. PollLoop'
        BY <1>1, <1>11 DEF PollLoop
  <1>17. \A f \in Features : Kept(f)' <=> Kept(f) \/ f \in InRegion[B.of]
        BY <1>1, <1>2, <1>6, <1>8 DEF Kept, InUnseeded
  <1>18. RowsKept'
    <2> SUFFICES ASSUME NEW f \in Features
                 PROVE  (row'[f] # Absent => Kept(f)') /\ (row'[f] = Absent => tags'[f] = <<>>)
        BY DEF RowsKept
    <2>1. CASE f \in NewIds
          BY <1>6, <1>8, <1>17, <2>1
    <2>2. CASE f \notin NewIds
          BY <1>8, <1>17, <2>2 DEF RowsKept
    <2> QED
        BY <2>1, <2>2
  <1>19. ASSUME flaw' = {} PROVE SettledExact' /\ PollInStep' /\ RowsLeft'
    <2>1. flaw = {} /\ \A f, s : (Quiet(f, s)' <=> Quiet(f, s)) /\ \A g : Version(g, tip)' = Version(g, tip)
          BY <1>1, <1>19, WorldStays
    <2>2. ASSUME NEW f, Settled(f)'
          PROVE  Settled(f) /\ (f \in InRegion[B.of] => Quiet(f, B.base))
      <3>1. PICK s : s = sequence
            OBVIOUS
      <3>2. sequence # Absent => Quiet(f, s)
            BY <1>1, <2>1, <2>2, <3>1 DEF Settled
      <3>3. ASSUME NEW c \in unseeded \cup {b}, f \in InRegion[bundles[c].of]
            PROVE  Quiet(f, bundles[c].base)
        <4>1. PICK base : base = bundles[c].base
              OBVIOUS
        <4>2. Quiet(f, base)'
              BY <1>1, <1>2, <2>2, <3>3, <4>1 DEF Settled
        <4> QED
            BY <2>1, <4>1, <4>2
      <3> QED
          BY <1>2, <3>1, <3>2, <3>3 DEF Settled
    <2>3. ASSUME NEW f \in Features, Kept(f)', Settled(f)' PROVE Exact(f)'
      <3>1. PICK v : v = Version(f, tip)
            OBVIOUS
      <3>2. row'[f] = v /\ tags'[f] = IF v = Absent THEN <<>> ELSE <<v>>
        <4>1. CASE row[f] # Absent \/ f \notin InRegion[B.of]
          <5>1. f \notin NewIds
                BY <1>6, <4>1
          <5>2. Kept(f)
                BY <1>17, <2>3, <4>1 DEF RowsKept
          <5>3. Exact(f)
                BY <2>1, <2>2, <2>3, <5>2 DEF SettledExact
          <5> QED
              BY <1>8, <3>1, <5>1, <5>3 DEF Exact
        <4>2. CASE row[f] = Absent /\ f \in InRegion[B.of]
          <5>1. B.row[f] = v /\ B.tags[f] = v
                BY <1>5, <2>2, <2>3, <3>1, <4>2
          <5>2. CASE v = Absent
            <6>1. f \notin NewIds /\ tags[f] = <<>>
                  BY <1>6, <4>2, <5>1, <5>2 DEF RowsKept
            <6> QED
                BY <1>8, <4>2, <5>2, <6>1
          <5>3. CASE v # Absent
            <6>1. f \in NewIds
                  BY <1>6, <4>2, <5>1, <5>3
            <6> QED
                BY <1>8, <5>1, <5>3, <6>1
          <5> QED
              BY <5>2, <5>3
        <4> QED
            BY <4>1, <4>2
      <3> QED
          BY <2>1, <3>1, <3>2 DEF Exact
    <2>4. SettledExact'
          BY <2>3 DEF SettledExact
    <2>5. PollInStep'
          BY <1>1, <2>1 DEF PollInStep
    <2>6. ASSUME NEW c \in unseeded \cup {b}, NEW f \in InRegion[bundles[c].of], Uncovered(f)',
                 Quiet(f, bundles[c].base)', Version(f, tip)' # Absent
          PROVE  row'[f] # Absent
      <3>1. PICK base : base = bundles[c].base
            OBVIOUS
      <3>2. Quiet(f, base)'
            BY <1>1, <2>6, <3>1
      <3>3. Quiet(f, bundles[c].base) /\ Version(f, tip) # Absent /\ Uncovered(f)
            BY <1>1, <2>1, <2>6, <3>1, <3>2 DEF Uncovered
      <3>4. f \in Features
        <4>1. c \in 1..Len(bundles)
              BY <1>3 DEF BTypes
        <4>2. bundles[c].of \in Regions
              BY <4>1 DEF BundlesSound, SoundBundle
        <4> QED
            BY <4>2, BundleAssumption
      <3>5. CASE c \in unseeded
        <4>1. row[f] # Absent
              BY <2>1, <3>3, <3>5 DEF RowsLeft
        <4> QED
            BY <1>8, <3>4, <4>1
      <3>6. CASE c = b
        <4>1. B.row[f] # Absent /\ f \in InRegion[B.of]
              BY <1>2, <1>5, <3>3, <3>6
        <4> QED
            BY <1>6, <1>8, <3>4, <4>1
      <3> QED
          BY <3>5, <3>6
    <2>7. RowsLeft'
          BY <1>1, <1>2, <2>6 DEF RowsLeft
    <2> QED
        BY <2>4, <2>5, <2>7
  <1> QED
      BY <1>12, <1>13, <1>14, <1>15, <1>16, <1>18, <1>19

\* The region of the bundle is registered.
LEMMA RegisterKeeps == ASSUME BInv, Register PROVE BInv'
  <1> USE DEF BInv
  <1>1. /\ UNCHANGED <<diffs, master, export, bundles, row, tags, sequence, nodes_file, gist, poll,
                       breaks, unseeded, bare, flaw>>
        /\ install.pc = "register" /\ install' = [install EXCEPT !.pc = "seed"]
        /\ installed_regions' = installed_regions \cup {region}
        BY DEF Register, registerInstalledRegion, Proceed, worldVars, exportVars, dataVars, At
  <1>2. PICK b, B : b = install.of /\ B = bundles[b]
        OBVIOUS
  <1>3. /\ b \in 1..Len(bundles) /\ SoundBundle(B) /\ bundle = B /\ region = B.of
        /\ install' \in [pc : Steps, of : Nat] /\ install'.pc = "seed" /\ install'.of = b
        /\ bundle' = B /\ region' = B.of
        BY <1>1, <1>2, InstallFacts DEF bundle, region, Steps
  <1>4. b \in unseeded /\ B.of \in Regions
        BY <1>1, <1>2, <1>3 DEF Unseeded, SoundBundle
  <1>5. tip' = tip /\ master' \in master..tip
        BY <1>1, TipFacts, WorldStays
  <1>6. BTypes'
        BY <1>1, <1>3, <1>4, <1>5 DEF BTypes
  <1>7. Exporting' /\ BundlesSound'
        BY <1>1, <1>5, ExportStays
  <1>8. Usable'
    <2>1. \A r : Located(r)' <=> Located(r)
          BY <1>1 DEF Located
    <2>2. B.of \notin bare => Located(B.of)
          BY <1>1, <1>2, <1>3 DEF Usable, Located
    <2> QED
        BY <1>1, <1>3, <2>1, <2>2 DEF Usable
  <1>9. Unseeded'
        BY <1>1, <1>2, <1>3, <1>4 DEF Unseeded
  <1>10. PollLoop'
        BY <1>1, <1>5 DEF PollLoop
  <1>11. \A f : Kept(f)' <=> Kept(f)
        BY <1>1, <1>2, <1>3, <1>4 DEF Kept, InUnseeded
  <1>12. RowsKept'
        BY <1>1, <1>11 DEF RowsKept
  <1>13. ASSUME flaw' = {} PROVE SettledExact' /\ PollInStep' /\ RowsLeft'
    <2>1. flaw = {}
          BY <1>1, <1>13
    <2>2. SettledExact'
      <3>1. \A f : Settled(f)' <=> Settled(f)
            BY <1>1 DEF Settled, Quiet, tip
      <3>2. \A f : Exact(f)' <=> Exact(f)
            BY <1>1, WorldStays DEF Exact
      <3> QED
          BY <1>11, <2>1, <3>1, <3>2 DEF SettledExact
    <2>3. PollInStep'
          BY <1>1, <1>2, <1>3, <1>4, <2>1 DEF PollInStep
    <2>4. RowsLeft'
      <3>1. \A f : Uncovered(f)' => Uncovered(f)
            BY <1>1 DEF Uncovered
      <3>2. \A f : Version(f, tip)' = Version(f, tip)
            BY <1>1, WorldStays
      <3>3. \A f, c : Quiet(f, bundles[c].base)' <=> Quiet(f, bundles[c].base)
            BY <1>1 DEF Quiet, tip
      <3> QED
          BY <1>1, <2>1, <3>1, <3>2, <3>3 DEF RowsLeft
    <2> QED
        BY <2>2, <2>3, <2>4
  <1> QED
      BY <1>6, <1>7, <1>8, <1>9, <1>10, <1>12, <1>13

\* The estimate of the sequence, seen from the export time.
LEMMA EstimatedFacts ==
    ASSUME BInv, install.pc # "idle"
    PROVE  /\ estimated \in 0..tip
           /\ ~(bundle.exported_at - Margin > bundle.base) => estimated <= bundle.base
  <1>1. tip \in Nat /\ Margin \in Nat /\ master \in Nat
        BY TipFacts, BundleAssumption DEF BInv
  <1>2. bundle.exported_at \in 0..tip /\ bundle.base \in 0..master
        BY InstallFacts DEF SoundBundle
  <1> QED
      BY <1>1, <1>2 DEF estimated

\* The sequence goes back to where the bundle's rows are right.
LEMMA SeedKeeps == ASSUME BInv, Seed PROVE BInv'
  <1> USE DEF BInv
  <1>1. /\ UNCHANGED <<diffs, master, export, bundles, row, tags, nodes_file, gist,
                       installed_regions, poll, breaks, bare>>
        /\ install.pc = "seed" /\ install' = NoInstall /\ sequence' = estimated
        /\ unseeded' = unseeded \ {install.of}
        BY DEF Seed, Proceed, worldVars, exportVars, At
  <1>2. /\ flaw' \in SUBSET {"lag", "skipped", "overlap"}
        /\ flaw' = {} =>
              /\ flaw = {} /\ ~(bundle.exported_at - Margin > bundle.base)
              /\ ~(sequence # Absent /\ estimated > sequence)
              /\ ~(poll.pc # "stopped" /\ (poll.pc = "apply" \/ poll.regions # installed_regions))
    <2>1. flaw \in SUBSET {"lag", "skipped", "overlap"}
          BY DEF BTypes
    <2>2. flaw' = flaw \cup {x \in {"lag", "skipped", "overlap"} :
                             \/ x = "lag" /\ bundle.exported_at - Margin > bundle.base
                             \/ x = "skipped" /\ sequence # Absent /\ estimated > sequence
                             \/ x = "overlap" /\ poll.pc # "stopped"
                                  /\ (poll.pc = "apply" \/ poll.regions # installed_regions)}
          BY DEF Seed
    <2> QED
        BY <2>1, <2>2, Zenon
  <1>3. PICK b, B : b = install.of /\ B = bundles[b]
        OBVIOUS
  <1>4. /\ b \in unseeded /\ bundle = B /\ region = B.of
        /\ b \in 1..Len(bundles) /\ B.base \in 0..master
        BY <1>1, <1>3, InstallFacts DEF bundle, region, Unseeded, SoundBundle
  <1>5. estimated \in 0..tip /\ (~(B.exported_at - Margin > B.base) => estimated <= B.base)
        BY <1>1, <1>4, EstimatedFacts
  <1>6. PICK s \in 0..tip : s = estimated
        BY <1>5
  <1>7. tip \in Nat /\ tip' = tip /\ master' \in master..tip /\ master \in Nat /\ master <= tip
        BY <1>1, TipFacts, WorldStays
  <1>8. s # Absent /\ sequence' = s /\ s \in Nat
        BY <1>1, <1>6, <1>7 DEF Absent
  <1>9. install' \in [pc : Steps, of : Nat] /\ install'.pc = "idle"
        BY <1>1, InstallFacts
  <1>10. BTypes'
    <2>1. sequence' \in Absent..tip'
          BY <1>6, <1>7, <1>8 DEF Absent
    <2> QED
        BY <1>1, <1>2, <1>7, <1>9, <2>1 DEF BTypes
  <1>11. Exporting' /\ BundlesSound'
        BY <1>1, <1>7, ExportStays
  <1>12. Usable' /\ Unseeded' /\ PollLoop'
        BY <1>1, <1>7, <1>8, <1>9 DEF Usable, Located, Unseeded, PollLoop
  <1>13. \A f \in Features : Kept(f)' => Kept(f)
    <2> SUFFICES ASSUME NEW f \in Features, Kept(f)' PROVE Kept(f)
        OBVIOUS
    <2>1. CASE \E r \in installed_regions : f \in InRegion[r]
          BY <2>1 DEF Kept, InUnseeded, Unseeded
    <2>2. CASE InUnseeded(f)'
          BY <1>1, <2>2 DEF Kept, InUnseeded
    <2>3. CASE row[f] # Absent
          BY <2>3 DEF RowsKept
    <2> QED
        BY <1>1, <2>1, <2>2, <2>3 DEF Kept
  <1>14. RowsKept'
        BY <1>1, <1>8 DEF RowsKept, Kept
  <1>15. ASSUME flaw' = {} PROVE SettledExact' /\ PollInStep' /\ RowsLeft'
    <2>1. flaw = {} /\ s <= B.base /\ (sequence # Absent => s <= sequence)
      <3>1. sequence \in Int
            BY <1>7 DEF BTypes, Absent
      <3> QED
          BY <1>2, <1>4, <1>5, <1>6, <1>8, <1>15, <3>1
    <2>2. ASSUME NEW f, NEW t \in Int, s <= t, Quiet(f, s) PROVE Quiet(f, t)
      <3>1. \A i \in 1..tip : i <= s => i <= t
            BY <1>7, <1>8, <2>2
      <3> QED
          BY <2>2, <3>1 DEF Quiet
    <2>3. ASSUME NEW f, Settled(f)' PROVE Settled(f)
      <3>1. Quiet(f, s)
        <4>1. Quiet(f, s)'
              BY <1>8, <2>3 DEF Settled
        <4> QED
            BY <1>1, <4>1, WorldStays
      <3>2. sequence # Absent => Quiet(f, sequence)
        <4>1. sequence \in Int
              BY <1>7 DEF BTypes, Absent
        <4> QED
            BY <2>1, <2>2, <3>1, <4>1
      <3>3. ASSUME NEW c \in unseeded, f \in InRegion[bundles[c].of]
            PROVE  Quiet(f, bundles[c].base)
        <4>1. CASE c = b
          <5>1. B.base \in Int
                BY <1>4, <1>7
          <5> QED
              BY <1>3, <2>1, <2>2, <3>1, <4>1, <5>1
        <4>2. CASE c # b
          <5>1. PICK base : base = bundles[c].base
                OBVIOUS
          <5>2. Quiet(f, base)'
                BY <1>1, <1>3, <2>3, <3>3, <4>2, <5>1 DEF Settled
          <5> QED
              BY <1>1, <5>1, <5>2, WorldStays
        <4> QED
            BY <4>1, <4>2
      <3> QED
          BY <3>2, <3>3 DEF Settled
    <2>4. SettledExact'
      <3>1. \A f : Exact(f)' <=> Exact(f)
            BY <1>1, WorldStays DEF Exact
      <3> QED
          BY <1>13, <2>1, <2>3, <3>1 DEF SettledExact
    <2>5. PollInStep'
          BY <1>1, <1>2, <1>15 DEF PollInStep
    <2>6. RowsLeft'
      <3>1. \A f : Uncovered(f)' => Uncovered(f)
            BY <1>1 DEF Uncovered
      <3>2. \A f : Version(f, tip)' = Version(f, tip)
            BY <1>1, WorldStays
      <3>3. \A f, c : Quiet(f, bundles[c].base)' <=> Quiet(f, bundles[c].base)
            BY <1>1 DEF Quiet, tip
      <3> QED
          BY <1>1, <2>1, <3>1, <3>2, <3>3 DEF RowsLeft
    <2> QED
        BY <2>4, <2>5, <2>6
  <1> QED
      BY <1>10, <1>11, <1>12, <1>14, <1>15

----------------------------------------------------------------------------
(* Poll mode on the target *)

\* A step that only moves poll from one stage to another.
LEMMA PollStep ==
    ASSUME BInv,
           UNCHANGED <<diffs, master, export, bundles, row, tags, sequence, nodes_file, gist,
                       installed_regions, install, breaks, unseeded, bare, flaw>>,
           poll' \in [pc : {"stopped", "head", "apply"}, regions : SUBSET Regions, seq : Nat, remote : Nat],
           PollLoop', flaw = {} => PollInStep', \A f : Uncovered(f)' => Uncovered(f)
    PROVE  BInv'
  <1> USE DEF BInv
  <1>1. master' \in master..tip /\ tip' = tip
        BY TipFacts, WorldStays
  <1>2. BTypes'
        BY <1>1 DEF BTypes
  <1>3. Exporting' /\ BundlesSound'
        BY <1>1, ExportStays
  <1>4. Usable' /\ Unseeded'
        BY DEF Usable, Located, Unseeded, bundle, region
  <1>5. \A f : Kept(f)' <=> Kept(f)
        BY DEF Kept, InUnseeded
  <1>6. RowsKept'
        BY <1>5 DEF RowsKept
  <1>7. ASSUME flaw' = {} PROVE SettledExact' /\ PollInStep' /\ RowsLeft'
    <2>1. \A f : Settled(f)' <=> Settled(f)
          BY DEF Settled, Quiet, tip
    <2>2. \A f : Exact(f)' <=> Exact(f)
          BY WorldStays DEF Exact
    <2>3. SettledExact'
          BY <1>5, <1>7, <2>1, <2>2 DEF SettledExact
    <2>4. RowsLeft'
      <3>1. \A f : Version(f, tip)' = Version(f, tip)
            BY WorldStays
      <3>2. \A f, c : Quiet(f, bundles[c].base)' <=> Quiet(f, bundles[c].base)
            BY DEF Quiet, tip
      <3> QED
          BY <1>7, <3>1, <3>2 DEF RowsLeft
    <2> QED
        BY <1>7, <2>3, <2>4
  <1> QED
      BY <1>2, <1>3, <1>4, <1>6, <1>7

\* What the poll record has.
LEMMA PollFacts ==
    ASSUME BInv
    PROVE  /\ poll \in [pc : {"stopped", "head", "apply"}, regions : SUBSET Regions, seq : Nat, remote : Nat]
           /\ installed_regions \in SUBSET Regions /\ tip \in Nat /\ sequence \in Absent..tip
           /\ NoPoll = [pc |-> "stopped", regions |-> {}, seq |-> 0, remote |-> 0]
  BY TipFacts DEF BInv, BTypes, NoPoll

\* runDelta loads the registered regions.
LEMMA PollStartsKeeps == ASSUME BInv, PollStarts PROVE BInv'
  <1>1. /\ UNCHANGED <<diffs, master, export, bundles, row, tags, sequence, nodes_file, gist,
                       installed_regions, install, breaks, unseeded, bare, flaw>>
        /\ poll.pc = "stopped" /\ sequence # Absent
        /\ poll' = [NoPoll EXCEPT !.pc = "head", !.regions = installed_regions]
        BY DEF PollStarts, pollRest, worldVars, exportVars, dataVars, targetVars, loadInstalledRegions
  <1>2. poll' = [pc |-> "head", regions |-> installed_regions, seq |-> 0, remote |-> 0]
        BY <1>1 DEF NoPoll
  <1>3. poll' \in [pc : {"stopped", "head", "apply"}, regions : SUBSET Regions, seq : Nat, remote : Nat]
        BY <1>2, PollFacts
  <1>4. PollLoop' /\ PollInStep'
        BY <1>1, <1>2 DEF PollLoop, PollInStep
  <1>5. \A f : Uncovered(f)' => Uncovered(f)
        BY <1>1, <1>2 DEF Uncovered
  <1> QED
      BY <1>1, <1>3, <1>4, <1>5, PollStep

\* The head of the loop.
LEMMA PollReadsKeeps == ASSUME BInv, PollReads PROVE BInv'
  <1>1. /\ UNCHANGED <<diffs, master, export, bundles, row, tags, sequence, nodes_file, gist,
                       installed_regions, install, breaks, unseeded, bare, flaw>>
        /\ poll.pc = "head" /\ sequence < tip
        /\ poll' = [poll EXCEPT !.pc = "apply", !.seq = sequence + 1, !.remote = tip]
        BY DEF PollReads, pollRest, worldVars, exportVars, dataVars, targetVars
  <1>2. poll' = [pc |-> "apply", regions |-> poll.regions, seq |-> sequence + 1, remote |-> tip]
        BY <1>1, PollFacts
  <1>3. sequence # Absent /\ poll.regions \subseteq installed_regions
        BY <1>1 DEF BInv, PollLoop
  <1>4. sequence + 1 \in Nat /\ tip \in Nat /\ sequence + 1 \in 1..tip
        BY <1>1, <1>3, PollFacts DEF Absent
  <1>5. poll' \in [pc : {"stopped", "head", "apply"}, regions : SUBSET Regions, seq : Nat, remote : Nat]
        BY <1>2, <1>4, PollFacts
  <1>6. PollLoop'
    <2>1. tip' = tip
          BY <1>1, WorldStays
    <2> QED
        BY <1>1, <1>2, <1>3, <1>4, <2>1 DEF PollLoop
  <1>7. flaw = {} => PollInStep'
        BY <1>1, <1>2 DEF BInv, PollInStep
  <1>8. \A f : Uncovered(f)' => Uncovered(f)
        BY <1>1, <1>2 DEF Uncovered
  <1> QED
      BY <1>1, <1>5, <1>6, <1>7, <1>8, PollStep

\* Poll ends; the next one will know every region this one knew.
LEMMA PollStopsKeeps == ASSUME BInv, PollStops PROVE BInv'
  <1>1. /\ UNCHANGED <<diffs, master, export, bundles, row, tags, sequence, nodes_file, gist,
                       installed_regions, install, breaks, unseeded, bare, flaw>>
        /\ poll.pc # "stopped" /\ poll' = NoPoll
        BY DEF PollStops, pollRest, worldVars, exportVars, dataVars, targetVars
  <1>2. poll' \in [pc : {"stopped", "head", "apply"}, regions : SUBSET Regions, seq : Nat, remote : Nat]
        BY <1>1, PollFacts
  <1>3. poll'.pc = "stopped"
        BY <1>1, PollFacts
  <1>4. PollLoop' /\ PollInStep'
        BY <1>3 DEF PollLoop, PollInStep
  <1>5. \A f : Uncovered(f)' => Uncovered(f)
        BY <1>1, <1>3 DEF Uncovered, BInv, PollLoop
  <1> QED
      BY <1>1, <1>2, <1>4, <1>5, PollStep

\* A diff is applied: its feature is exact if it is the last about it; the
\* others are as settled as before.
LEMMA PollAppliesKeeps == ASSUME BInv, PollApplies PROVE BInv'
  <1> USE DEF BInv
  <1>1. PICK s, f, del : s = poll.seq /\ f = diffs[s].of /\ del = diffs[s].deleted
        OBVIOUS
  <1>2. /\ UNCHANGED <<diffs, master, export, bundles, nodes_file, gist, installed_regions, install,
                       breaks, unseeded, bare>>
        /\ poll.pc = "apply" /\ sequence' = s
        BY <1>1 DEF PollApplies, worldVars, exportVars
  <1>3. PICK v : v = IF del \/ ~Covered(f) THEN Absent ELSE s
        OBVIOUS
  <1>4. \/ UNCHANGED <<row, tags>> /\ ~Covered(f)
        \/ /\ row' = [row EXCEPT ![f] = v]
           /\ tags' = [tags EXCEPT ![f] = IF v = Absent THEN <<>> ELSE <<v>>]
        BY <1>1, <1>3 DEF PollApplies
  <1>5. flaw' = flaw \cup (IF row[f] # Absent /\ ~Covered(f) THEN {"overlap"} ELSE {})
        BY <1>1 DEF PollApplies, OverwritesInstall
  <1>6. poll' = IF s = poll.remote THEN [poll EXCEPT !.pc = "head", !.seq = 0, !.remote = 0]
                ELSE [poll EXCEPT !.seq = s + 1]
        BY <1>1 DEF PollApplies
  <1>7. /\ tip \in Nat /\ MaxDiffs \in Nat /\ tip <= MaxDiffs /\ tip' = tip /\ master' \in master..tip
        BY <1>2, TipFacts, WorldStays
  <1>8. /\ poll.remote \in Nat /\ poll.remote <= tip /\ s \in 1..poll.remote /\ sequence # Absent
        /\ poll.regions \subseteq installed_regions
        BY <1>1, <1>2, PollFacts DEF PollLoop
  <1>9. s \in 1..tip /\ s \in Nat /\ s # Absent
        BY <1>7, <1>8 DEF Absent
  <1>10. f \in Features /\ del \in BOOLEAN
        BY <1>1, <1>9, TipFacts DEF Diffs
  <1>11. v \in Versions /\ (v # Absent => Covered(f))
        BY <1>3, <1>7, <1>9 DEF Versions, Absent
  <1>12. row \in [Features -> Versions] /\ tags \in [Features -> TagSets]
        BY DEF BTypes
  <1>13. /\ \A g \in Features : g # f => row'[g] = row[g] /\ tags'[g] = tags[g]
         /\ \/ row'[f] = row[f] /\ tags'[f] = tags[f] /\ ~Covered(f)
            \/ row'[f] = v /\ tags'[f] = IF v = Absent THEN <<>> ELSE <<v>>
         /\ row' \in [Features -> Versions] /\ tags' \in [Features -> TagSets]
    <2>1. (IF v = Absent THEN <<>> ELSE <<v>>) \in TagSets
          BY <1>11 DEF TagSets
    <2> QED
        BY <1>4, <1>10, <1>11, <1>12, <2>1
  <1>14. /\ poll' \in [pc : {"stopped", "head", "apply"}, regions : SUBSET Regions, seq : Nat, remote : Nat]
         /\ poll'.pc # "stopped" /\ poll'.regions = poll.regions
         /\ poll'.pc = "apply" => poll'.seq = s + 1 /\ s # poll.remote /\ poll'.remote = poll.remote
    <2>1. CASE s = poll.remote
      <3>1. poll' = [pc |-> "head", regions |-> poll.regions, seq |-> 0, remote |-> 0]
            BY <1>6, <2>1, PollFacts
      <3> QED
          BY <3>1, PollFacts
    <2>2. CASE s # poll.remote
      <3>1. poll' = [pc |-> "apply", regions |-> poll.regions, seq |-> s + 1, remote |-> poll.remote]
            BY <1>2, <1>6, <2>2, PollFacts
      <3>2. s + 1 \in Nat
            BY <1>9
      <3> QED
          BY <2>2, <3>1, <3>2, PollFacts
    <2> QED
        BY <2>1, <2>2
  <1>15. flaw' \in SUBSET {"lag", "skipped", "overlap"}
    <2>1. flaw \in SUBSET {"lag", "skipped", "overlap"}
          BY DEF BTypes
    <2> QED
        BY <1>5, <2>1
  <1>16. BTypes'
    <2>1. sequence' \in Absent..tip'
          BY <1>2, <1>7, <1>9 DEF Absent
    <2> QED
        BY <1>2, <1>7, <1>13, <1>14, <1>15, <2>1 DEF BTypes
  <1>17. Exporting' /\ BundlesSound'
        BY <1>2, <1>7, ExportStays
  <1>18. Usable' /\ Unseeded'
        BY <1>2, <1>9 DEF Usable, Located, Unseeded, bundle, region
  <1>19. PollLoop'
    <2>1. poll'.pc = "apply" => poll'.seq \in 1..poll'.remote /\ poll'.remote <= tip
          BY <1>8, <1>14
    <2> QED
        BY <1>2, <1>7, <1>8, <1>9, <1>14, <2>1 DEF PollLoop
  <1>20. Covered(f) => Kept(f)
        BY <1>8 DEF Covered, Kept
  <1>21. \A g \in Features : Kept(g)' => Kept(g)
    <2> SUFFICES ASSUME NEW g \in Features, Kept(g)' PROVE Kept(g)
        OBVIOUS
    <2>1. CASE row'[g] # Absent /\ g = f
          BY <1>11, <1>13, <1>20, <2>1 DEF RowsKept
    <2>2. CASE ~(row'[g] # Absent /\ g = f)
          BY <1>2, <1>8, <1>13, <2>2 DEF Kept, InUnseeded
    <2> QED
        BY <2>1, <2>2
  <1>22. RowsKept'
    <2> SUFFICES ASSUME NEW g \in Features
                 PROVE  (row'[g] # Absent => Kept(g)') /\ (row'[g] = Absent => tags'[g] = <<>>)
        BY DEF RowsKept
    <2>1. CASE g # f
          BY <1>2, <1>9, <1>13, <2>1 DEF RowsKept, Kept
    <2>2. CASE g = f
          BY <1>2, <1>9, <1>10, <1>11, <1>13, <2>2 DEF RowsKept, Kept
    <2> QED
        BY <2>1, <2>2
  <1>23. ASSUME flaw' = {} PROVE SettledExact' /\ PollInStep' /\ RowsLeft'
    <2>1. flaw = {} /\ (~Covered(f) => row[f] = Absent)
          BY <1>5, <1>23
    <2>2. s = sequence + 1 /\ sequence \in Nat
      <3>1. s = sequence + 1
            BY <1>1, <1>2, <2>1 DEF PollInStep
      <3> QED
          BY <1>8, <3>1, PollFacts DEF Absent
    <2>3. \A g, t : Quiet(g, t)' <=> Quiet(g, t)
          BY <1>2, WorldStays
    <2>4. ~Covered(f) => row'[f] = Absent /\ tags'[f] = <<>>
          BY <1>3, <1>10, <1>13, <2>1 DEF RowsKept
    \* A bundle that waits for its sequence has the row of an uncovered feature.
    <2>5. ASSUME NEW b \in unseeded, f \in InRegion[bundles[b].of], Quiet(f, bundles[b].base),
                 ~Covered(f)
          PROVE  Version(f, tip) = Absent
      <3>1. Uncovered(f)
            BY <1>2, <2>5 DEF Uncovered, Covered
      <3> QED
          BY <2>1, <2>5, <3>1 DEF RowsLeft
    <2>6. ASSUME NEW g, Settled(g)'
          PROVE  /\ Quiet(g, s)
                 /\ \A b \in unseeded : g \in InRegion[bundles[b].of] => Quiet(g, bundles[b].base)
      <3>1. Quiet(g, s)'
            BY <1>2, <1>9, <2>6 DEF Settled
      <3>2. ASSUME NEW b \in unseeded, g \in InRegion[bundles[b].of] PROVE Quiet(g, bundles[b].base)
        <4>1. PICK base : base = bundles[b].base
              OBVIOUS
        <4>2. Quiet(g, base)'
              BY <1>2, <2>6, <3>2, <4>1 DEF Settled
        <4> QED
            BY <2>3, <4>1, <4>2
      <3> QED
          BY <2>3, <3>1, <3>2
    <2>7. ASSUME NEW g \in Features, Kept(g), Settled(g)', g # f PROVE Exact(g)'
      <3>1. Quiet(g, sequence)
        <4>1. ASSUME NEW i \in 1..tip, diffs[i].of = g PROVE i <= sequence
          <5>1. i <= s
                BY <2>6, <2>7, <4>1 DEF Quiet
          <5>2. i # s
                BY <1>1, <2>7, <4>1
          <5> QED
              BY <1>7, <2>2, <5>1, <5>2
        <4> QED
            BY <4>1 DEF Quiet
      <3>2. Settled(g)
            BY <2>6, <2>7, <3>1 DEF Settled
      <3>3. Exact(g)
            BY <2>1, <2>7, <3>2 DEF SettledExact
      <3> QED
          BY <1>2, <1>13, <2>7, <3>3, WorldStays DEF Exact
    <2>8. ASSUME Kept(f), Settled(f)' PROVE Exact(f)'
      <3>1. Version(f, tip) = IF del THEN Absent ELSE s
            BY <1>1, <1>9, <2>6, <2>8, VersionLast
      <3>2. row'[f] = Version(f, tip)
            /\ tags'[f] = IF Version(f, tip) = Absent THEN <<>> ELSE <<Version(f, tip)>>
        <4>1. CASE Covered(f)
              BY <1>3, <1>13, <3>1, <4>1
        <4>2. CASE ~Covered(f)
          <5>1. InUnseeded(f)
            <6>1. CASE \E r \in installed_regions : f \in InRegion[r]
              <7>1. PICK r \in installed_regions : f \in InRegion[r]
                    BY <6>1
              <7>2. r \notin poll.regions
                    BY <4>2, <7>1 DEF Covered
              <7> QED
                  BY <1>2, <2>1, <7>1, <7>2 DEF PollInStep, InUnseeded
            <6>2. CASE ~\E r \in installed_regions : f \in InRegion[r]
                  BY <2>1, <2>8, <4>2, <6>2 DEF Kept
            <6> QED
                BY <6>1, <6>2
          <5>2. Version(f, tip) = Absent
                BY <2>5, <2>6, <2>8, <4>2, <5>1 DEF InUnseeded
          <5> QED
              BY <2>4, <4>2, <5>2
        <4> QED
            BY <4>1, <4>2
      <3> QED
          BY <1>2, <3>2, WorldStays DEF Exact
    <2>9. SettledExact'
          BY <1>21, <2>7, <2>8 DEF SettledExact
    <2>10. PollInStep'
          BY <1>2, <1>14, <2>1 DEF PollInStep
    <2>11. RowsLeft'
      <3> SUFFICES ASSUME NEW b \in unseeded, NEW g \in InRegion[bundles[b].of], Uncovered(g)',
                          Quiet(g, bundles[b].base)', Version(g, tip)' # Absent
                   PROVE  row'[g] # Absent
          BY <1>2 DEF RowsLeft
      <3>1. PICK base : base = bundles[b].base
            OBVIOUS
      <3>2. Quiet(g, base)'
            BY <1>2, <3>1
      <3>3. Quiet(g, bundles[b].base) /\ Version(g, tip) # Absent
            BY <1>2, <2>3, <3>1, <3>2, WorldStays
      <3>4. Uncovered(g) /\ ~Covered(g)
            BY <1>2, <1>14 DEF Uncovered, Covered
      <3>5. g \in Features
        <4>1. bundles[b].of \in Regions
              BY DEF BTypes, BundlesSound, SoundBundle
        <4> QED
            BY <4>1, BundleAssumption
      <3>6. row[g] # Absent
            BY <2>1, <3>3, <3>4 DEF RowsLeft
      <3>7. g # f
            BY <2>1, <3>4, <3>6
      <3> QED
          BY <1>13, <3>5, <3>6, <3>7
    <2> QED
        BY <2>9, <2>10, <2>11
  <1> QED
      BY <1>16, <1>17, <1>18, <1>19, <1>22, <1>23

----------------------------------------------------------------------------
(* The specification *)

\* An empty target satisfies the invariant.
LEMMA BundleInitBInv == BundleInit => BInv
  <1> SUFFICES ASSUME BundleInit PROVE BInv
      OBVIOUS
  <1>1. /\ diffs = <<>> /\ master = 0 /\ export = NoExport /\ bundles = <<>>
        /\ row = [f \in Features |-> Absent] /\ tags = [f \in Features |-> <<>>]
        /\ nodes_file = [state |-> "none", has |-> {}] /\ gist = TRUE /\ installed_regions = {}
        /\ sequence = Absent /\ install = NoInstall /\ poll = NoPoll /\ breaks = 0
        /\ unseeded = {} /\ bare = {} /\ flaw = {}
        BY DEF BundleInit
  <1>2. tip = 0 /\ Len(bundles) = 0
        BY <1>1 DEF tip
  <1>3. Absent \in Versions /\ <<>> \in TagSets /\ Absent \in Absent..tip
        BY <1>2, BundleAssumption DEF Absent, Versions, TagSets
  <1>4. install = [pc |-> "idle", of |-> 0] /\ poll = [pc |-> "stopped", regions |-> {}, seq |-> 0, remote |-> 0]
        BY <1>1 DEF NoInstall, NoPoll
  <1>5. BTypes
    <2>1. diffs \in Seq(Diffs) /\ bundles \in Seq(Bundles)
          BY <1>1
    <2>2. row \in [Features -> Versions] /\ tags \in [Features -> TagSets]
          BY <1>1, <1>3
    <2>3. tip <= MaxDiffs /\ master \in 0..tip
          BY <1>1, <1>2, BundleAssumption
    <2> QED
        BY <1>1, <1>3, <1>4, <2>1, <2>2, <2>3 DEF BTypes, Steps
  <1>6. Exporting
    <2>1. export = [pc |-> "idle", of |-> CHOOSE r \in Regions : TRUE, exported_at |-> 0, base |-> 0,
                    read |-> 0, row |-> <<>>, tags |-> <<>>]
          BY <1>1 DEF NoExport
    <2> QED
        BY <2>1 DEF Exporting
  <1>7. BundlesSound
    <2>1. 1..Len(bundles) = {}
          BY <1>2
    <2> QED
        BY <2>1 DEF BundlesSound
  <1>8. Usable /\ Unseeded /\ PollLoop
        BY <1>1, <1>4 DEF Usable, Unseeded, PollLoop
  <1>9. \A f : ~Kept(f)
        BY <1>1 DEF Kept, InUnseeded
  <1>10. RowsKept /\ SettledExact /\ PollInStep /\ RowsLeft
        BY <1>1, <1>4, <1>9 DEF RowsKept, SettledExact, PollInStep, RowsLeft
  <1> QED
      BY <1>5, <1>6, <1>7, <1>8, <1>10 DEF BInv

\* Every step keeps the invariant.
LEMMA BundleNextBInv == BInv /\ [BundleNext]_bvars => BInv'
  <1> SUFFICES ASSUME BInv, [BundleNext]_bvars PROVE BInv'
      OBVIOUS
  <1>1. CASE \E f \in Features, d \in BOOLEAN : PublishDiff(f, d)
        BY <1>1, PublishKeeps
  <1>2. CASE MasterPolls
        BY <1>2, MasterKeeps
  <1>3. CASE \E r \in Regions : WriteManifest(r)
        BY <1>3, ManifestKeeps
  <1>4. CASE ReadRows
        BY <1>4, ReadRowsKeeps
  <1>5. CASE ReadTags
        BY <1>5, ReadTagsKeeps
  <1>6. CASE Bundle
        BY <1>6, BundleKeeps
  <1>7. CASE \E b \in 1..Len(bundles) : PrepareSchema(b)
        BY <1>7, PrepareKeeps
  <1>8. CASE RunScript
        BY <1>8, RunScriptKeeps
  <1>9. CASE CreateIndexes
        BY <1>9, CreateIndexesKeeps
  <1>10. CASE InstallNodes
        BY <1>10, InstallNodesKeeps
  <1>11. CASE Register
        BY <1>11, RegisterKeeps
  <1>21. CASE SkipNodes
        BY <1>21, SkipNodesKeeps
  <1>22. CASE SkipRegister
        BY <1>22, SkipRegisterKeeps
  <1>12. CASE Seed
        BY <1>12, SeedKeeps
  <1>13. CASE SeedFails
        BY <1>13, SeedFailsKeeps
  <1>14. CASE InstallBreaks
        BY <1>14, BreaksKeeps
  <1>15. CASE MergeThrows
        BY <1>15, MergeThrowsKeeps
  <1>16. CASE PollStarts
        BY <1>16, PollStartsKeeps
  <1>17. CASE PollReads
        BY <1>17, PollReadsKeeps
  <1>18. CASE PollApplies
        BY <1>18, PollAppliesKeeps
  <1>19. CASE PollStops
        BY <1>19, PollStopsKeeps
  <1>20. CASE UNCHANGED bvars
    <2>1. UNCHANGED <<diffs, master, export, bundles, row, tags, nodes_file, gist, installed_regions,
                      sequence, install, poll, installs, breaks, unseeded, bare, flaw>>
          BY <1>20 DEF bvars
    <2>2. tip' = tip /\ master' \in master..tip
          BY <2>1, TipFacts, WorldStays DEF BInv
    <2>3. BTypes'
          BY <2>1, <2>2 DEF BInv, BTypes
    <2> QED
        BY <2>1, <2>2, <2>3, ExportStays, TargetStays DEF BInv
  <1> QED
      BY <1>1, <1>2, <1>3, <1>4, <1>5, <1>6, <1>7, <1>8, <1>9, <1>10, <1>11, <1>12, <1>13, <1>14,
         <1>15, <1>16, <1>17, <1>18, <1>19, <1>20, <1>21, <1>22 DEF BundleNext

\* The inductive invariant holds in every behaviour, with any number of diffs,
\* bundles, installs and breaks.
THEOREM BundleInvariant == BundleSpec => []BInv
  BY BundleInitBInv, BundleNextBInv, PTL DEF BundleSpec

\* What the invariant says about the states the run looks at.
LEMMA BundleConsequences == BInv => BundleTypeOK /\ InstalledRegionIsExact /\ RegisteredIsUsable
  <1> SUFFICES ASSUME BInv PROVE BundleTypeOK /\ InstalledRegionIsExact /\ RegisteredIsUsable
      OBVIOUS
  <1>1. BundleTypeOK
    <2>1. \A f \in Features : Len(tags[f]) <= 1
      <3> SUFFICES ASSUME NEW f \in Features PROVE Len(tags[f]) <= 1
          OBVIOUS
      <3>1. tags[f] \in TagSets
            BY DEF BInv, BTypes
      <3>2. tags[f] = <<>> \/ \E v \in Versions : tags[f] = <<v>>
            BY <3>1 DEF TagSets
      <3>3. Len(<<>>) <= 1 /\ \A v : Len(<<v>>) <= 1
            OBVIOUS
      <3> QED
          BY <3>2, <3>3, Zenon
    <2>2. sequence \in Versions
          BY TipFacts DEF BInv, BTypes, Versions, Absent
    <2> QED
        BY <2>1, <2>2 DEF BInv, BTypes, BundleTypeOK, Steps
  <1>2. InstalledRegionIsExact
    <2> SUFFICES ASSUME CaughtUp, flaw = {}, unseeded = {}, NEW r \in installed_regions,
                        NEW f \in InRegion[r]
                 PROVE  Exact(f)
        BY DEF InstalledRegionIsExact, Exact
    <2>1. sequence # Absent /\ sequence = tip
          BY DEF BInv, CaughtUp, PollLoop
    <2>2. f \in Features
          BY BundleAssumption DEF BInv, BTypes
    <2>3. Kept(f)
          BY <2>1 DEF Kept
    <2>4. Settled(f)
      <3>1. \A i \in 1..tip : i <= tip
            BY TipFacts DEF BInv
      <3> QED
          BY <2>1, <3>1 DEF Settled, Quiet
    <2> QED
        BY <2>2, <2>3, <2>4 DEF BInv, SettledExact
  <1>3. RegisteredIsUsable
        BY DEF BInv, Usable, Located, RegisteredIsUsable, At
  <1> QED
      BY <1>1, <1>2, <1>3

\* The tables of the target, the install and poll keep their types; no feature
\* ever has two sets of tags.
THEOREM BundleTypes == BundleSpec => []BundleTypeOK
  BY BundleInvariant, BundleConsequences, PTL

\* A caught-up target has exactly the rows and tags of its regions, for every
\* margin and any overlap of regions, although a bundle is read at many times
\* from a database in use and installs break off and are repeated, unless the
\* sequence was set too high in one of the recorded ways.
THEOREM InstalledRegionsAreExact == BundleSpec => []InstalledRegionIsExact
  BY BundleInvariant, BundleConsequences, PTL

\* A registered region has its coordinates in a readable node file, unless its
\* last bundle came without them or a merge lost its count, and its indexes were
\* rebuilt since its rows went in.
THEOREM RegisteredRegionsAreUsable == BundleSpec => []RegisteredIsUsable
  BY BundleInvariant, BundleConsequences, PTL
====
