------------------------- MODULE ImageMerge_proofs -------------------------
(***************************************************************************)
(* What a merge publishes, for any number of merges, platforms, archives   *)
(* and changes to the inputs.  An input is read three times: hashed when it *)
(* is opened, listed and walked through, and copied.  The inductive        *)
(* invariant says, input by input, what a merge knows of it at each point; *)
(* the stamp is what ties the three readings together.                     *)
(***************************************************************************)
EXTENDS ImageMerge, FiniteSetTheorems, SequenceTheorems, TLAPS

ArchiveFile == [archive : Archive, stamp : 0..MaxWrites]

-----------------------------------------------------------------------------
(* The inductive invariant *)

\* The pcs after the last input is verified, unless the merge fails.
After == {"mkstemp", "copy", "check", "link", "unlink", "done"}

\* What was hashed is what the file still holds, unless its stamp tells.
Opened(r, p, file) ==
    /\ r.hashed[p] \in Archive
    /\ r.stamp[p] <= file.stamp
    /\ r.stamp[p] = file.stamp => r.hashed[p] = file.archive

\* The same for what was listed, in which no blob is damaged.
Listed(r, p, file) ==
    /\ r.listed[p] \in Archive
    /\ r.listed[p].bad = {}
    /\ r.stamp[p] = file.stamp => r.listed[p] = file.archive

\* The same for what was copied.
Copied(r, p, file) ==
    /\ r.copied[p] \in Archive
    /\ r.stamp[p] = file.stamp => r.copied[p] = file.archive

\* What the walk takes for leaves of platform p is one, and all it needs is there.
LeavesFine(leaves, p, blobs) ==
    \A n \in leaves :
        /\ n \in blobs /\ Content[n].needs \subseteq blobs
        /\ \/ Content[n].kind = "image" /\ Content[n].platform = p /\ Content[n].subject = None
           \/ Content[n].kind = "attestation" /\ Content[n].platform = None

\* What was listed was hashed, and its graph is complete.
Verified(r, p) ==
    /\ r.listed[p] = r.hashed[p]
    /\ r.hashed[p].bad = {}
    /\ LeavesFine(r.leaves[p], p, r.hashed[p].blobs)
    /\ Complete(r.leaves[p])

\* A merge r knows this of its i-th input, whose file is given.
Progress(r, i, file) ==
    LET p == Platforms[i] IN
    /\ r.pc \in {"start", "mkstemp"} => r.at = 1
    /\ ( \/ r.pc \in {"start", "open", "inventory", "index"} /\ i >= r.at
         \/ r.pc = "walk" /\ i > r.at )
       => r.leaves[p] = {}
    /\ r.pc \in {"inventory", "index", "walk"} /\ i = r.at => Opened(r, p, file)
    /\ r.pc \in {"index", "walk"} /\ i = r.at => Listed(r, p, file)
    /\ r.pc = "walk" /\ i = r.at => LeavesFine(r.leaves[p], p, r.listed[p].blobs)
    /\ ( \/ r.pc \in After
         \/ r.pc \in {"open", "inventory", "index", "walk"} /\ i < r.at )
       => Opened(r, p, file) /\ Verified(r, p)
    /\ ( \/ r.pc \in {"check", "link", "unlink", "done"}
         \/ r.pc = "copy" /\ i < r.at )
       => Copied(r, p, file)
    /\ ( \/ r.pc \in {"link", "unlink", "done"}
         \/ r.pc = "check" /\ i < r.at )
       => r.copied[p] = r.hashed[p]

ProgressInv ==
    \A m \in Merges : \A i \in DOMAIN Platforms :
        Progress(merge[m], i, input[Platforms[i]])

\* What is published is verified, and the merge reads nothing more.
PublishedInv ==
    \A m \in Merges : output = m =>
        /\ merge[m].pc \in {"unlink", "done", "killed"}
        /\ \A p \in P : Verified(merge[m], p) /\ merge[m].copied[p] = merge[m].hashed[p]

MergeInv == TypeOK /\ ProgressInv /\ PublishedInv

-----------------------------------------------------------------------------
(* The constants *)

LEMMA PlatformsTyped ==
    /\ Len(Platforms) \in Nat \ {0}
    /\ DOMAIN Platforms = 1..Len(Platforms)
    /\ P = {Platforms[i] : i \in DOMAIN Platforms}
    /\ \A i \in DOMAIN Platforms : Platforms[i] \in P
    /\ \A i, j \in DOMAIN Platforms : Platforms[i] = Platforms[j] => i = j
<1>1. Platforms \in Seq(P) /\ Platforms # <<>> /\ IsInjective(Platforms)
  BY MergeAssumption
<1>2. Len(Platforms) \in Nat /\ DOMAIN Platforms = 1..Len(Platforms)
  BY <1>1, LenProperties
<1>3. Len(Platforms) # 0
  BY <1>1, EmptySeq
<1>4. P = {Platforms[i] : i \in DOMAIN Platforms}
  BY DEF P, ToSet
<1>5. \A i, j \in DOMAIN Platforms : Platforms[i] = Platforms[j] => i = j
  BY <1>1 DEF IsInjective
<1> QED
  BY <1>2, <1>3, <1>4, <1>5

\* What an index lists are descriptors.
LEMMA ListingTyped ==
    ASSUME NEW manifests \in Seq(Names), NEW depth \in 0..MaxDepth + 1
    PROVE  Listing(manifests, depth) \in Seq(Descriptor)
<1>1. manifests \in [1..Len(manifests) -> Names] /\ Len(manifests) \in Nat
  OBVIOUS
<1>2. \A k \in DOMAIN manifests : [name |-> manifests[k], depth |-> depth] \in Descriptor
  BY <1>1 DEF Descriptor
<1>3. Listing(manifests, depth) \in [1..Len(manifests) -> Descriptor]
  BY <1>1, <1>2 DEF Listing
<1> QED
  BY <1>1, <1>3, SeqDef

\* The next input, or the first again.
LEMMA TurnTyped ==
    ASSUME NEW r \in Reading, NEW again \in Steps, NEW then \in Steps
    PROVE  Turn(r, again, then) \in Reading
<1>1. r.at \in 1..Len(Platforms) /\ Len(Platforms) \in Nat \ {0} /\ DOMAIN Platforms = 1..Len(Platforms)
  BY PlatformsTyped DEF Reading
<1>2. CASE r.at < Len(Platforms)
  <2>1. r.at + 1 \in DOMAIN Platforms
    BY <1>1, <1>2
  <2>2. Turn(r, again, then) = [r EXCEPT !.at = @ + 1, !.pc = again]
    BY <1>2 DEF Turn
  <2> QED
    BY <2>1, <2>2 DEF Reading
<1>3. CASE ~ r.at < Len(Platforms)
  <2>1. Turn(r, again, then) = [r EXCEPT !.at = 1, !.pc = then]
    BY <1>3 DEF Turn
  <2>2. 1 \in DOMAIN Platforms
    BY <1>1
  <2> QED
    BY <2>1, <2>2 DEF Reading
<1> QED
  BY <1>2, <1>3

-----------------------------------------------------------------------------
(* The steps of a merge *)

\* Merge m moves on, and knows what it should know where it comes to.
Advances(m) ==
    \E new \in Reading :
        /\ Become(m, new)
        /\ \A i \in DOMAIN Platforms : Progress(new, i, input[Platforms[i]])

\* The merge's record and the input in turn.
LEMMA InTurn ==
    ASSUME TypeOK, NEW m \in Merges
    PROVE  /\ merge[m] \in Reading
           /\ merge[m].at \in DOMAIN Platforms
           /\ Reads(m) = Platforms[merge[m].at] /\ Reads(m) \in P
           /\ merge[m].at \in Nat /\ DOMAIN Platforms \subseteq Nat
           /\ \A p \in P : input[p] \in ArchiveFile /\ input[p].stamp \in Nat
<1>1. merge[m] \in Reading /\ merge[m].at \in DOMAIN Platforms
  BY DEF TypeOK, Reading
<1>2. \A p \in P : input[p] \in ArchiveFile /\ input[p].stamp \in Nat
  BY MergeAssumption DEF TypeOK, ArchiveFile
<1> QED
  BY <1>1, <1>2, PlatformsTyped DEF Reads

\* Only a merge at a step that reads must know what it reads.
LEMMA StoppedKnows ==
    ASSUME NEW r \in Reading, r.pc \in {"cleanup", "failed", "killed"}
    PROVE  \A i \in DOMAIN Platforms : Progress(r, i, input[Platforms[i]])
BY DEF Progress, After

LEMMA StopAdvances ==
    ASSUME TypeOK, NEW m \in Merges, NEW pc \in {"cleanup", "failed", "killed"},
           Become(m, To(m, pc))
    PROVE  Advances(m)
<1>1. To(m, pc) \in Reading /\ To(m, pc).pc = pc
  <2>1. merge[m] \in Reading
    BY InTurn
  <2> QED
    BY <2>1 DEF To, Reading, Steps
<1> QED
  BY <1>1, StoppedKnows DEF Advances

LEMMA StartAdvances ==
    ASSUME TypeOK, ProgressInv, NEW m \in Merges, Start(m)
    PROVE  Advances(m)
<1>1. CASE output # None
  BY <1>1, StopAdvances DEF Start
<1>2. CASE output = None
  <2> DEFINE r == merge[m]
             new == To(m, "open")
  <2>1. r \in Reading /\ r.pc = "start"
    BY InTurn DEF Start, At
  <2>2. new \in Reading /\ new = [r EXCEPT !.pc = "open"]
    BY <2>1 DEF To, Reading, Steps
  <2>3. \A i \in DOMAIN Platforms : Progress(r, i, input[Platforms[i]])
    BY DEF ProgressInv
  <2>4. r.at = 1
    <3>1. 1 \in DOMAIN Platforms
      BY PlatformsTyped
    <3>2. Progress(r, 1, input[Platforms[1]])
      BY <2>3, <3>1
    <3> QED
      BY <2>1, <3>2 DEF Progress
  <2>5. Become(m, new)
    BY <1>2 DEF Start
  <2>6. new.pc = "open" /\ new.at = r.at /\ new.leaves = r.leaves
    BY <2>1 DEF To, Reading
  <2> HIDE DEF new
  <2>7. ASSUME NEW i \in DOMAIN Platforms PROVE Progress(new, i, input[Platforms[i]])
    <3>1. Progress(r, i, input[Platforms[i]])
      BY <2>3, <2>7
    <3>2. i \in Nat /\ i >= 1
      BY <2>7, PlatformsTyped
    <3> QED
      BY <2>1, <2>4, <2>6, <3>1, <3>2 DEF Progress, After
  <2> QED
    BY <2>2, <2>5, <2>7 DEF Advances
<1> QED
  BY <1>1, <1>2

LEMMA OpenAdvances ==
    ASSUME TypeOK, ProgressInv, NEW m \in Merges, Open(m)
    PROVE  Advances(m)
<1> DEFINE r == merge[m]
           p == Reads(m)
           new == [To(m, "inventory") EXCEPT !.stamp[p] = input[p].stamp,
                                             !.hashed[p] = input[p].archive, !.visited = 0]
<1>1. r \in Reading /\ r.pc = "open" /\ p = Platforms[r.at] /\ p \in P /\ input[p] \in ArchiveFile
  BY InTurn DEF Open, At
<1>2. new \in Reading
  <2>1. [r.stamp EXCEPT ![p] = input[p].stamp] \in [P -> 0..MaxWrites]
    BY <1>1 DEF Reading, ArchiveFile
  <2>2. [r.hashed EXCEPT ![p] = input[p].archive] \in [P -> Archive \cup {None}]
    BY <1>1 DEF Reading, ArchiveFile
  <2>3. 0 \in 0..MaxVisited
    BY MergeAssumption
  <2>4. new = [r EXCEPT !.pc = "inventory", !.stamp = [@ EXCEPT ![p] = input[p].stamp],
                        !.hashed = [@ EXCEPT ![p] = input[p].archive], !.visited = 0]
    BY <1>1 DEF To, Reading
  <2> QED
    BY <1>1, <2>1, <2>2, <2>3, <2>4 DEF Reading, Steps
<1>3. /\ new.pc = "inventory" /\ new.at = r.at /\ new.leaves = r.leaves
      /\ new.listed = r.listed /\ new.copied = r.copied
      /\ new.stamp[p] = input[p].stamp /\ new.hashed[p] = input[p].archive
      /\ \A q \in P \ {p} : new.stamp[q] = r.stamp[q] /\ new.hashed[q] = r.hashed[q]
  BY <1>1 DEF To, Reading
<1>4. Become(m, new)
  BY DEF Open
<1> HIDE DEF new
<1>5. ASSUME NEW i \in DOMAIN Platforms PROVE Progress(new, i, input[Platforms[i]])
  <2>1. Progress(r, i, input[Platforms[i]])
    BY <1>5 DEF ProgressInv
  <2>2. CASE i = r.at
    BY <1>1, <1>3, <2>1, <2>2, InTurn DEF Progress, After, Opened, ArchiveFile
  <2>3. CASE i # r.at
    <3>1. Platforms[i] \in P \ {p}
      BY <1>1, <1>5, <2>3, PlatformsTyped, InTurn
    <3> QED
      BY <1>1, <1>3, <2>1, <2>3, <3>1 DEF Progress, After, Opened, Verified
  <2> QED
    BY <2>2, <2>3
<1> QED
  BY <1>2, <1>4, <1>5 DEF Advances

LEMMA InventoryAdvances ==
    ASSUME TypeOK, ProgressInv, NEW m \in Merges, Inventory(m)
    PROVE  Advances(m)
<1> DEFINE r == merge[m]
           p == Reads(m)
           new == [To(m, "index") EXCEPT !.listed[p] = input[p].archive]
<1>1. CASE input[p].archive.bad # {}
  BY <1>1, StopAdvances DEF Inventory
<1>2. CASE input[p].archive.bad = {}
  <2>1. r \in Reading /\ r.pc = "inventory" /\ p = Platforms[r.at] /\ p \in P /\ input[p] \in ArchiveFile
    BY InTurn DEF Inventory, At
  <2>2. new \in Reading
    BY <2>1 DEF To, Reading, Steps, ArchiveFile
  <2>3. /\ new.pc = "index" /\ new.at = r.at /\ new.leaves = r.leaves
        /\ new.hashed = r.hashed /\ new.stamp = r.stamp /\ new.copied = r.copied
        /\ new.listed[p] = input[p].archive
        /\ \A q \in P \ {p} : new.listed[q] = r.listed[q]
    BY <2>1 DEF To, Reading
  <2>4. Become(m, new)
    BY <1>2 DEF Inventory
  <2> HIDE DEF new
  <2>5. ASSUME NEW i \in DOMAIN Platforms PROVE Progress(new, i, input[Platforms[i]])
    <3>1. Progress(r, i, input[Platforms[i]])
      BY <2>5 DEF ProgressInv
    <3>2. CASE i = r.at
      BY <1>2, <2>1, <2>3, <3>1, <3>2, InTurn DEF Progress, After, Opened, Listed, ArchiveFile
    <3>3. CASE i # r.at
      <4>1. Platforms[i] \in P \ {p}
        BY <2>1, <2>5, <3>3, PlatformsTyped, InTurn
      <4> QED
        BY <2>1, <2>3, <3>1, <3>3, <4>1 DEF Progress, After, Opened, Verified
    <3> QED
      BY <3>2, <3>3
  <2> QED
    BY <2>2, <2>4, <2>5 DEF Advances
<1> QED
  BY <1>1, <1>2

LEMMA ReadIndexAdvances ==
    ASSUME TypeOK, ProgressInv, NEW m \in Merges, ReadIndex(m)
    PROVE  Advances(m)
<1> DEFINE r == merge[m]
           index == input[Reads(m)].archive.index
           new == [To(m, "walk") EXCEPT !.todo = Listing(index, 0)]
<1>1. CASE index = <<>>
  BY <1>1, StopAdvances DEF ReadIndex
<1>2. CASE index # <<>>
  <2>1. r \in Reading /\ r.pc = "index" /\ index \in Seq(Names)
    BY InTurn DEF ReadIndex, At, ArchiveFile, Archive
  <2>2. Listing(index, 0) \in Seq(Descriptor)
    BY <2>1, ListingTyped, MergeAssumption
  <2>3. new \in Reading
    BY <2>1, <2>2 DEF To, Reading, Steps
  <2>4. /\ new.pc = "walk" /\ new.at = r.at /\ new.leaves = r.leaves /\ new.listed = r.listed
        /\ new.hashed = r.hashed /\ new.stamp = r.stamp /\ new.copied = r.copied
    BY <2>1 DEF To, Reading
  <2>5. Become(m, new)
    BY <1>2 DEF ReadIndex
  <2> HIDE DEF new
  <2>6. ASSUME NEW i \in DOMAIN Platforms PROVE Progress(new, i, input[Platforms[i]])
    <3>1. Progress(r, i, input[Platforms[i]])
      BY <2>6 DEF ProgressInv
    <3> QED
      BY <2>1, <2>4, <2>6, <3>1, InTurn, PlatformsTyped
      DEF Progress, After, Opened, Listed, Verified, LeavesFine
  <2> QED
    BY <2>3, <2>5, <2>6 DEF Advances
<1> QED
  BY <1>1, <1>2

\* A descriptor is visited: the walk goes on with what is left, and the manifests an
\* index lists in front of it.
LEMMA VisitAdvances ==
    ASSUME TypeOK, ProgressInv, NEW m \in Merges, Visit(m)
    PROVE  Advances(m)
<1> DEFINE r == merge[m]
           p == Reads(m)
           next == Head(r.todo)
           blob == Content[next.name]
           blobs == r.listed[p].blobs
           rest == [r EXCEPT !.todo = Tail(@), !.visited = @ + 1]
           inner == [rest EXCEPT !.todo = Listing(blob.manifests, next.depth + 1) \o @]
           leaf == [rest EXCEPT !.leaves[p] = @ \cup {next.name}]
           fine == /\ ImageFine(blobs, p, blob) \/ AttestationFine(blobs, blob)
                   /\ next.name \notin r.leaves[p]
           limits == next.depth > MaxDepth \/ rest.visited > MaxVisited \/ ~Held(blobs, {next.name})
<1>1. r \in Reading /\ r.pc = "walk" /\ p = Platforms[r.at] /\ p \in P /\ r.todo # <<>>
  BY InTurn DEF Visit, At
<1>2. next \in Descriptor /\ Tail(r.todo) \in Seq(Descriptor)
  BY <1>1, HeadTailProperties DEF Reading
<1>3. blob \in Blob /\ next.name \in Names /\ next.depth \in Nat
  BY <1>2, MergeAssumption DEF Descriptor
<1>4. \/ Become(m, To(m, "failed"))
      \/ ~limits /\ Become(m, inner)
      \/ ~limits /\ fine /\ Become(m, leaf)
  BY DEF Visit
<1>5. rest.visited = r.visited + 1 /\ r.visited \in 0..MaxVisited
  BY <1>1 DEF Reading
<1>6. ~limits => /\ next.depth + 1 \in 0..MaxDepth + 1
                 /\ r.visited + 1 \in 0..MaxVisited
                 /\ next.name \in blobs
  <2>1. r.visited + 1 = rest.visited
    BY <1>5
  <2> HIDE DEF rest
  <2>2. ~limits => ~(next.depth > MaxDepth) /\ ~(rest.visited > MaxVisited)
    OBVIOUS
  <2>3. ~limits => next.name \in blobs
    BY DEF Held
  <2>4. MaxDepth \in Nat /\ MaxVisited \in Nat
    BY MergeAssumption
  <2> HIDE DEF next, limits
  <2> QED
    BY <1>3, <1>5, <2>1, <2>2, <2>3, <2>4
<1>7. ~limits => rest \in Reading
  <2>1. rest = [r EXCEPT !.todo = Tail(r.todo), !.visited = r.visited + 1]
    BY <1>1 DEF Reading
  <2> QED
    BY <1>1, <1>2, <1>6, <2>1 DEF Reading
<1>8. /\ rest.pc = "walk" /\ rest.at = r.at /\ rest.leaves = r.leaves /\ rest.listed = r.listed
      /\ rest.hashed = r.hashed /\ rest.stamp = r.stamp /\ rest.copied = r.copied
      /\ rest.todo = Tail(r.todo)
  BY <1>1 DEF Reading
<1>9. CASE Become(m, To(m, "failed"))
  BY <1>9, StopAdvances
<1>10. CASE ~limits /\ Become(m, inner)
  <2>1. Listing(blob.manifests, next.depth + 1) \in Seq(Descriptor)
    BY <1>3, <1>6, <1>10, ListingTyped DEF Blob
  <2>2. Listing(blob.manifests, next.depth + 1) \o Tail(r.todo) \in Seq(Descriptor)
    BY <1>2, <2>1, ConcatProperties
  <2> HIDE DEF rest, limits
  <2>3. inner \in Reading
    BY <1>7, <1>8, <1>10, <2>2 DEF Reading
  <2>4. /\ inner.pc = "walk" /\ inner.at = r.at /\ inner.leaves = r.leaves
        /\ inner.listed = r.listed /\ inner.hashed = r.hashed /\ inner.stamp = r.stamp
        /\ inner.copied = r.copied
    BY <1>7, <1>8, <1>10 DEF Reading
  <2>5. ASSUME NEW i \in DOMAIN Platforms PROVE Progress(inner, i, input[Platforms[i]])
    <3> HIDE DEF inner
    <3>1. Progress(r, i, input[Platforms[i]])
      BY <2>5 DEF ProgressInv
    <3> QED
      BY <1>1, <2>4, <3>1 DEF Progress, After, Opened, Listed, Verified, LeavesFine
  <2> QED
    BY <1>10, <2>3, <2>5 DEF Advances
<1>11. CASE ~limits /\ fine /\ Become(m, leaf)
  <2> HIDE DEF rest, limits
  <2>1. leaf \in Reading
    <3>1. [r.leaves EXCEPT ![p] = @ \cup {next.name}] \in [P -> SUBSET Names]
      BY <1>1, <1>3 DEF Reading
    <3>2. leaf = [rest EXCEPT !.leaves = [r.leaves EXCEPT ![p] = @ \cup {next.name}]]
      BY <1>7, <1>8, <1>11 DEF Reading
    <3> QED
      BY <1>7, <1>11, <3>1, <3>2 DEF Reading
  <2>2. /\ leaf.pc = "walk" /\ leaf.at = r.at /\ leaf.listed = r.listed
        /\ leaf.hashed = r.hashed /\ leaf.stamp = r.stamp /\ leaf.copied = r.copied
        /\ leaf.leaves[p] = r.leaves[p] \cup {next.name}
        /\ \A q \in P \ {p} : leaf.leaves[q] = r.leaves[q]
    BY <1>1, <1>7, <1>8, <1>11 DEF Reading
  <2>3. /\ next.name \in blobs /\ blob.needs \subseteq blobs
        /\ \/ blob.kind = "image" /\ blob.platform = p /\ blob.subject = None
           \/ blob.kind = "attestation" /\ blob.platform = None
    BY <1>6, <1>11 DEF ImageFine, AttestationFine, Held
  <2>4. ASSUME NEW i \in DOMAIN Platforms PROVE Progress(leaf, i, input[Platforms[i]])
    <3> HIDE DEF leaf, fine
    <3>1. Progress(r, i, input[Platforms[i]])
      BY <2>4 DEF ProgressInv
    <3>2. CASE i = r.at
      <4>1. LeavesFine(r.leaves[p], p, blobs)
        BY <1>1, <3>1, <3>2 DEF Progress
      <4>2. LeavesFine(leaf.leaves[p], p, blobs)
        BY <2>2, <2>3, <4>1 DEF LeavesFine
      <4> QED
        <5>1. Opened(r, p, input[p]) /\ Listed(r, p, input[p])
          BY <1>1, <3>1, <3>2 DEF Progress
        <5>2. Opened(leaf, p, input[p]) /\ Listed(leaf, p, input[p])
          BY <2>2, <5>1 DEF Opened, Listed
        <5>3. LeavesFine(leaf.leaves[p], p, leaf.listed[p].blobs)
          BY <2>2, <4>2
        <5>4. i = leaf.at /\ i \in Nat /\ leaf.pc = "walk" /\ Platforms[i] = p
          BY <1>1, <2>2, <3>2, InTurn
        <5> QED
          BY <5>2, <5>3, <5>4 DEF Progress, After
    <3>3. CASE i # r.at
      <4>1. Platforms[i] \in P \ {p}
        BY <1>1, <2>4, <3>3, PlatformsTyped, InTurn
      <4> QED
        BY <1>1, <2>2, <3>1, <3>3, <4>1 DEF Progress, After, Opened, Verified
    <3> QED
      BY <3>2, <3>3
  <2> QED
    BY <1>11, <2>1, <2>4 DEF Advances
<1> QED
  BY <1>4, <1>9, <1>10, <1>11

\* An input is verified: its stamp has not changed, so what was listed was hashed.
LEMMA VerifyAdvances ==
    ASSUME TypeOK, ProgressInv, NEW m \in Merges, Verify(m)
    PROVE  Advances(m)
<1> DEFINE r == merge[m]
           p == Reads(m)
           new == Turn(r, "open", "mkstemp")
<1>1. r \in Reading /\ r.pc = "walk" /\ p = Platforms[r.at] /\ p \in P
  BY InTurn DEF Verify, At
<1>2. CASE ~(Complete(r.leaves[p]) /\ Unchanged(m))
  BY <1>2, StopAdvances DEF Verify
<1>3. CASE Complete(r.leaves[p]) /\ Unchanged(m)
  <2>1. new \in Reading /\ Become(m, new)
    BY <1>1, <1>3, TurnTyped DEF Verify, Steps
  <2>2. /\ \/ r.at < Len(Platforms) /\ new.pc = "open" /\ new.at = r.at + 1
           \/ r.at = Len(Platforms) /\ new.pc = "mkstemp" /\ new.at = 1
        /\ new.leaves = r.leaves /\ new.listed = r.listed /\ new.hashed = r.hashed
        /\ new.stamp = r.stamp /\ new.copied = r.copied
    BY <1>1, InTurn, PlatformsTyped DEF Turn, Reading
  <2> HIDE DEF new
  <2>3. Opened(r, p, input[p]) /\ Verified(r, p)
    <3>1. Progress(r, r.at, input[p])
      BY <1>1, InTurn DEF ProgressInv
    <3>2. /\ Opened(r, p, input[p]) /\ Listed(r, p, input[p])
          /\ LeavesFine(r.leaves[p], p, r.listed[p].blobs)
      BY <1>1, <3>1 DEF Progress
    <3>3. r.stamp[p] = input[p].stamp
      BY <1>3 DEF Unchanged
    <3> QED
      BY <1>3, <3>2, <3>3 DEF Opened, Listed, Verified
  <2>4. ASSUME NEW i \in DOMAIN Platforms PROVE Progress(new, i, input[Platforms[i]])
    <3>1. Progress(r, i, input[Platforms[i]])
      BY <2>4 DEF ProgressInv
    <3>2. i \in 1..Len(Platforms) /\ r.at \in 1..Len(Platforms) /\ Len(Platforms) \in Nat
      BY <2>4, InTurn, PlatformsTyped
    <3>3. i <= r.at => Opened(r, Platforms[i], input[Platforms[i]]) /\ Verified(r, Platforms[i])
      BY <1>1, <2>3, <3>1, <3>2 DEF Progress
    <3>4. i > r.at => r.leaves[Platforms[i]] = {}
      BY <1>1, <3>1 DEF Progress
    <3> QED
      BY <2>2, <3>2, <3>3, <3>4 DEF Progress, After, Opened, Verified
  <2> QED
    BY <2>1, <2>4 DEF Advances
<1> QED
  BY <1>2, <1>3

LEMMA MakeTempAdvances ==
    ASSUME TypeOK, ProgressInv, NEW m \in Merges, MakeTemp(m)
    PROVE  Advances(m)
<1> DEFINE r == merge[m]
           new == To(m, "copy")
<1>1. CASE Become(m, To(m, "failed"))
  BY <1>1, StopAdvances
<1>2. CASE Become(m, new)
  <2>1. r \in Reading /\ r.pc = "mkstemp"
    BY InTurn DEF MakeTemp, At
  <2>2. /\ new.pc = "copy" /\ new.at = r.at /\ new.leaves = r.leaves /\ new.listed = r.listed
        /\ new.hashed = r.hashed /\ new.stamp = r.stamp /\ new.copied = r.copied
    BY <2>1 DEF To, Reading
  <2>3. new \in Reading
    BY <2>1 DEF To, Reading, Steps
  <2> HIDE DEF new
  <2>4. ASSUME NEW i \in DOMAIN Platforms PROVE Progress(new, i, input[Platforms[i]])
    <3>1. Progress(r, i, input[Platforms[i]])
      BY <2>4 DEF ProgressInv
    <3>2. i \in Nat /\ i >= 1
      BY <2>4, PlatformsTyped
    <3> QED
      BY <2>1, <2>2, <3>1, <3>2 DEF Progress, After, Opened, Verified
  <2> QED
    BY <1>2, <2>3, <2>4 DEF Advances
<1> QED
  BY <1>1, <1>2 DEF MakeTemp

LEMMA CopyAdvances ==
    ASSUME TypeOK, ProgressInv, NEW m \in Merges, Copy(m)
    PROVE  Advances(m)
<1> DEFINE r == merge[m]
           p == Reads(m)
           read == [r EXCEPT !.copied[p] = input[p].archive]
           new == Turn(read, "copy", "check")
<1>1. r \in Reading /\ r.pc = "copy" /\ p = Platforms[r.at] /\ p \in P /\ input[p] \in ArchiveFile
  BY InTurn DEF Copy, At
<1>2. CASE Become(m, To(m, "cleanup"))
  BY <1>2, StopAdvances
<1>3. CASE Become(m, new)
  <2>1. read \in Reading
    BY <1>1 DEF Reading, ArchiveFile
  <2>2. /\ read.at = r.at /\ read.leaves = r.leaves /\ read.listed = r.listed
        /\ read.hashed = r.hashed /\ read.stamp = r.stamp
        /\ read.copied[p] = input[p].archive
        /\ \A q \in P \ {p} : read.copied[q] = r.copied[q]
    BY <1>1 DEF Reading
  <2> HIDE DEF read
  <2>3. new \in Reading
    BY <2>1, TurnTyped DEF Steps
  <2>4. /\ \/ r.at < Len(Platforms) /\ new.pc = "copy" /\ new.at = r.at + 1
           \/ r.at = Len(Platforms) /\ new.pc = "check" /\ new.at = 1
        /\ new.leaves = r.leaves /\ new.listed = r.listed /\ new.hashed = r.hashed
        /\ new.stamp = r.stamp /\ new.copied = read.copied
    BY <2>1, <2>2, InTurn, PlatformsTyped DEF Turn, Reading
  <2> HIDE DEF new
  <2>5. ASSUME NEW i \in DOMAIN Platforms PROVE Progress(new, i, input[Platforms[i]])
    <3>1. Progress(r, i, input[Platforms[i]])
      BY <2>5 DEF ProgressInv
    <3>2. i \in 1..Len(Platforms) /\ r.at \in 1..Len(Platforms) /\ Len(Platforms) \in Nat
      BY <2>5, InTurn, PlatformsTyped
    <3>3. i <= r.at => Copied(new, Platforms[i], input[Platforms[i]])
      <4>1. CASE i = r.at
        BY <1>1, <2>2, <2>4, <4>1 DEF Copied, ArchiveFile
      <4>2. CASE i < r.at
        <5>1. Platforms[i] \in P \ {p}
          BY <1>1, <2>5, <3>2, <4>2, PlatformsTyped, InTurn
        <5>2. Copied(r, Platforms[i], input[Platforms[i]])
          BY <1>1, <3>1, <4>2 DEF Progress
        <5> QED
          BY <2>2, <2>4, <5>1, <5>2 DEF Copied
      <4> QED
        BY <3>2, <4>1, <4>2
    <3>4. Opened(r, Platforms[i], input[Platforms[i]]) /\ Verified(r, Platforms[i])
      BY <1>1, <3>1 DEF Progress, After
    <3>5. Opened(new, Platforms[i], input[Platforms[i]]) /\ Verified(new, Platforms[i])
      BY <2>4, <3>4 DEF Opened, Verified
    <3> QED
      BY <2>4, <3>2, <3>3, <3>5 DEF Progress, After
  <2> QED
    BY <1>3, <2>3, <2>5 DEF Advances
<1> QED
  BY <1>2, <1>3 DEF Copy

\* An input is checked again: its stamp has not changed, so what was copied was hashed.
LEMMA CheckAdvances ==
    ASSUME TypeOK, ProgressInv, NEW m \in Merges, Check(m)
    PROVE  Advances(m)
<1> DEFINE r == merge[m]
           p == Reads(m)
           new == Turn(r, "check", "link")
<1>1. r \in Reading /\ r.pc = "check" /\ p = Platforms[r.at] /\ p \in P
  BY InTurn DEF Check, At
<1>2. CASE ~Unchanged(m)
  BY <1>2, StopAdvances DEF Check
<1>3. CASE Unchanged(m)
  <2>1. new \in Reading /\ Become(m, new)
    BY <1>1, <1>3, TurnTyped DEF Check, Steps
  <2>2. /\ \/ r.at < Len(Platforms) /\ new.pc = "check" /\ new.at = r.at + 1
           \/ r.at = Len(Platforms) /\ new.pc = "link" /\ new.at = 1
        /\ new.leaves = r.leaves /\ new.listed = r.listed /\ new.hashed = r.hashed
        /\ new.stamp = r.stamp /\ new.copied = r.copied
    BY <1>1, InTurn, PlatformsTyped DEF Turn, Reading
  <2> HIDE DEF new
  <2>3. ASSUME NEW i \in DOMAIN Platforms PROVE Progress(new, i, input[Platforms[i]])
    <3>1. Progress(r, i, input[Platforms[i]])
      BY <2>3 DEF ProgressInv
    <3>2. i \in 1..Len(Platforms) /\ r.at \in 1..Len(Platforms) /\ Len(Platforms) \in Nat
      BY <2>3, InTurn, PlatformsTyped
    <3>3. /\ Opened(r, Platforms[i], input[Platforms[i]]) /\ Verified(r, Platforms[i])
          /\ Copied(r, Platforms[i], input[Platforms[i]])
      BY <1>1, <3>1 DEF Progress, After
    <3>4. i <= r.at => r.copied[Platforms[i]] = r.hashed[Platforms[i]]
      <4>1. CASE i = r.at
        BY <1>1, <1>3, <3>3, <4>1 DEF Opened, Copied, Unchanged
      <4>2. CASE i < r.at
        BY <1>1, <3>1, <4>2 DEF Progress
      <4> QED
        BY <3>2, <4>1, <4>2
    <3>5. /\ Opened(new, Platforms[i], input[Platforms[i]]) /\ Verified(new, Platforms[i])
          /\ Copied(new, Platforms[i], input[Platforms[i]])
      BY <2>2, <3>3 DEF Opened, Verified, Copied
    <3> QED
      BY <2>2, <3>2, <3>4, <3>5 DEF Progress, After
  <2> QED
    BY <2>1, <2>3 DEF Advances
<1> QED
  BY <1>2, <1>3

\* A merge that is linked or done knows as much as one about to link.
LEMMA SettledAdvances ==
    ASSUME TypeOK, ProgressInv, NEW m \in Merges, NEW pc \in {"unlink", "done"},
           merge[m].pc \in {"link", "unlink"}, Become(m, To(m, pc))
    PROVE  Advances(m)
<1> DEFINE r == merge[m]
           new == To(m, pc)
<1>1. r \in Reading
  BY InTurn
<1>2. /\ new.pc = pc /\ new.at = r.at /\ new.leaves = r.leaves /\ new.listed = r.listed
      /\ new.hashed = r.hashed /\ new.stamp = r.stamp /\ new.copied = r.copied
  BY <1>1 DEF To, Reading
<1>3. new \in Reading
  BY <1>1 DEF To, Reading, Steps
<1> HIDE DEF new
<1>4. ASSUME NEW i \in DOMAIN Platforms PROVE Progress(new, i, input[Platforms[i]])
  <2>1. Progress(r, i, input[Platforms[i]])
    BY <1>4 DEF ProgressInv
  <2> QED
    BY <1>2, <2>1 DEF Progress, After, Opened, Verified, Copied
<1> QED
  BY <1>3, <1>4 DEF Advances, new

LEMMA RunAdvances ==
    ASSUME TypeOK, ProgressInv, NEW m \in Merges, Run(m)
    PROVE  Advances(m) /\ UNCHANGED input
<1>1. UNCHANGED input
  BY DEF Run, Start, Open, Inventory, ReadIndex, Visit, Verify, MakeTemp, Copy, Check, Link,
         Unlink, Kill
<1>2. CASE Link(m)
  BY <1>2, StopAdvances, SettledAdvances DEF Link, At
<1>3. CASE Unlink(m)
  BY <1>3, StopAdvances, SettledAdvances DEF Unlink, At
<1>4. CASE Kill(m)
  BY <1>4, StopAdvances DEF Kill
<1> QED
  BY <1>1, <1>2, <1>3, <1>4, StartAdvances, OpenAdvances, InventoryAdvances, ReadIndexAdvances,
     VisitAdvances, VerifyAdvances, MakeTempAdvances, CopyAdvances, CheckAdvances DEF Run

-----------------------------------------------------------------------------
(* The invariant *)

LEMMA InitInv == Init => MergeInv
<1> SUFFICES ASSUME Init PROVE MergeInv
  OBVIOUS
<1> USE DEF Init
<1>1. Unread \in Reading
  <2>1. 1 \in DOMAIN Platforms /\ 0 \in 0..MaxWrites /\ 0 \in 0..MaxVisited
    BY PlatformsTyped, MergeAssumption
  <2> QED
    BY <2>1 DEF Unread, Reading, Steps
<1>2. TypeOK
  <2>1. PICK a \in [P -> UNION {Archives[p] : p \in P}] :
            /\ \A p \in P : a[p] \in Archives[p]
            /\ input = [p \in P |-> [archive |-> a[p], stamp |-> 0]]
    OBVIOUS
  <2>2. \A p \in P : a[p] \in Archive
    BY <2>1, MergeAssumption
  <2>3. 0 \in 0..MaxWrites
    BY MergeAssumption
  <2> QED
    BY <1>1, <2>1, <2>2, <2>3 DEF TypeOK
<1>3. ProgressInv
  BY PlatformsTyped DEF ProgressInv, Progress, Unread, After
<1>4. PublishedInv
  BY MergeAssumption DEF PublishedInv
<1> QED
  BY <1>2, <1>3, <1>4 DEF MergeInv

\* A step of a merge keeps what every merge knows of its inputs.
LEMMA RunProgress ==
    ASSUME TypeOK, ProgressInv, NEW m \in Merges, Run(m)
    PROVE  ProgressInv' /\ merge' \in [Merges -> Reading]
<1>1. PICK new \in Reading :
        /\ Become(m, new)
        /\ \A i \in DOMAIN Platforms : Progress(new, i, input[Platforms[i]])
  BY RunAdvances DEF Advances
<1>2. UNCHANGED input
  BY RunAdvances
<1>3. merge \in [Merges -> Reading] /\ merge' = [merge EXCEPT ![m] = new]
  BY <1>1 DEF Become, TypeOK
<1>4. ASSUME NEW n \in Merges, NEW i \in DOMAIN Platforms
      PROVE  Progress(merge'[n], i, input'[Platforms[i]])
  <2>1. CASE n = m
    BY <1>1, <1>2, <1>3, <2>1
  <2>2. CASE n # m
    BY <1>2, <1>3, <2>2 DEF ProgressInv
  <2> QED
    BY <2>1, <2>2
<1> QED
  BY <1>3, <1>4 DEF ProgressInv

\* A later stamp only takes away from what a merge knows.
LEMMA WriteProgress ==
    ASSUME TypeOK, ProgressInv, NEW p \in P, Write(p)
    PROVE  ProgressInv' /\ TypeOK'
<1>1. PICK a \in Archives[p] \ {input[p].archive} :
        input' = [input EXCEPT ![p] = [archive |-> a, stamp |-> input[p].stamp + 1]]
  BY DEF Write
<1>2. input[p] \in ArchiveFile /\ input[p].stamp < MaxWrites /\ a \in Archive
  BY <1>1, MergeAssumption DEF Write, TypeOK, ArchiveFile
<1>3. input[p].stamp + 1 \in 0..MaxWrites /\ input[p].stamp \in Nat
  BY <1>2, MergeAssumption DEF ArchiveFile
<1>4. TypeOK'
  <2>1. [archive |-> a, stamp |-> input[p].stamp + 1] \in ArchiveFile
    BY <1>2, <1>3 DEF ArchiveFile
  <2>2. input' \in [P -> ArchiveFile]
    BY <1>1, <2>1 DEF TypeOK, ArchiveFile
  <2>3. \A q \in P : input'[q].archive \in Archives[q]
    BY <1>1 DEF TypeOK
  <2> QED
    BY <2>2, <2>3 DEF Write, TypeOK, ArchiveFile
<1>5. ASSUME NEW m \in Merges, NEW i \in DOMAIN Platforms
      PROVE  Progress(merge[m], i, input'[Platforms[i]])
  <2> DEFINE r == merge[m]
             q == Platforms[i]
  <2>1. Progress(r, i, input[q]) /\ r \in Reading /\ q \in P
    BY PlatformsTyped DEF ProgressInv, TypeOK
  <2>2. r.stamp[q] \in Nat
    BY <2>1, MergeAssumption DEF Reading
  <2>3. CASE q # p
    <3>1. input'[q] = input[q]
      BY <1>1, <2>1, <2>3 DEF TypeOK
    <3> QED
      BY <2>1, <3>1
  <2>4. CASE q = p
    <3>1. input'[q].stamp = input[q].stamp + 1 /\ input[q].stamp \in Nat
      BY <1>1, <1>3, <2>4 DEF TypeOK
    <3>2. Opened(r, q, input[q]) => r.stamp[q] <= input[q].stamp
      BY DEF Opened
    <3>3. Opened(r, q, input[q]) => r.stamp[q] # input'[q].stamp /\ Opened(r, q, input'[q])
      BY <2>2, <3>1 DEF Opened
    <3>4. r.stamp[q] # input'[q].stamp /\ Listed(r, q, input[q]) => Listed(r, q, input'[q])
      BY DEF Listed
    <3>5. r.stamp[q] # input'[q].stamp /\ Copied(r, q, input[q]) => Copied(r, q, input'[q])
      BY DEF Copied
    <3> DEFINE before == input[q]
               after == input'[q]
    <3>6. Progress(r, i, before)
      BY <2>1
    <3>7. Opened(r, q, before) => Opened(r, q, after)
      BY <3>3
    <3>8. Opened(r, q, before) /\ Listed(r, q, before) => Listed(r, q, after)
      BY <3>3, <3>4
    <3>9. Opened(r, q, before) /\ Copied(r, q, before) => Copied(r, q, after)
      BY <3>3, <3>5
    <3>10. Progress(r, i, after)
      <4> HIDE DEF r, before, after
      <4>1. ( \/ r.pc \in {"check", "link", "unlink", "done"}
              \/ r.pc = "copy" /\ i < r.at ) => r.pc \in After
        BY DEF After
      <4> QED
        BY <3>6, <3>7, <3>8, <3>9, <4>1 DEF Progress
    <3> QED
      BY <3>10
  <2> QED
    BY <2>3, <2>4
<1>6. UNCHANGED merge
  BY DEF Write
<1> QED
  BY <1>4, <1>5, <1>6 DEF ProgressInv

\* The fields a merge has read do not change when it only moves on.
LEMMA OnlyMoves ==
    ASSUME TypeOK, NEW m \in Merges, NEW pc, Become(m, To(m, pc))
    PROVE  /\ merge'[m].pc = pc
           /\ \A p : Verified(merge[m], p) => Verified(merge'[m], p)
           /\ merge'[m].copied = merge[m].copied /\ merge'[m].hashed = merge[m].hashed
           /\ \A n \in Merges \ {m} : merge'[n] = merge[n]
<1>1. merge[m] \in Reading /\ merge' = [merge EXCEPT ![m] = [merge[m] EXCEPT !.pc = pc]]
  BY DEF TypeOK, Become, To
<1>2. /\ merge'[m].pc = pc
      /\ merge'[m].leaves = merge[m].leaves /\ merge'[m].listed = merge[m].listed
      /\ merge'[m].copied = merge[m].copied /\ merge'[m].hashed = merge[m].hashed
  BY <1>1 DEF TypeOK, Reading
<1>3. \A n \in Merges \ {m} : merge'[n] = merge[n]
  BY <1>1 DEF TypeOK
<1> QED
  BY <1>2, <1>3 DEF Verified

\* Only a link publishes, and then everything has been checked.
LEMMA RunPublished ==
    ASSUME TypeOK, ProgressInv, PublishedInv, NEW m \in Merges, Run(m)
    PROVE  PublishedInv'
<1>1. CASE Link(m)
  <2>1. CASE output = None /\ output' = m /\ Become(m, To(m, "unlink"))
    <3>1. \A p \in P : Verified(merge[m], p) /\ merge[m].copied[p] = merge[m].hashed[p]
      BY <1>1, PlatformsTyped DEF ProgressInv, Progress, After, Link, At
    <3>2. /\ merge'[m].pc = "unlink"
          /\ \A p \in P : Verified(merge'[m], p) /\ merge'[m].copied[p] = merge'[m].hashed[p]
      BY <2>1, <3>1, OnlyMoves
    <3> QED
      BY <2>1, <3>2 DEF PublishedInv
  <2>2. CASE output' = output /\ Become(m, To(m, "cleanup"))
    <3>1. output # m
      BY <1>1 DEF PublishedInv, Link, At
    <3>2. \A n \in Merges \ {m} : merge'[n] = merge[n]
      BY <2>2, OnlyMoves
    <3> QED
      BY <2>2, <3>1, <3>2 DEF PublishedInv
  <2> QED
    BY <1>1, <2>1, <2>2 DEF Link
<1>2. CASE Unlink(m) \/ Kill(m)
  <2>1. UNCHANGED output
    BY <1>2 DEF Unlink, Kill
  <2>2. PICK pc : Become(m, To(m, pc)) /\ (merge[m].pc \in {"unlink", "done", "killed"}
                                           => pc \in {"unlink", "done", "killed"})
    BY <1>2 DEF Unlink, Kill, At
  <2> QED
    BY <2>1, <2>2, OnlyMoves DEF PublishedInv
<1>3. CASE ~(Link(m) \/ Unlink(m) \/ Kill(m))
  <2>1. merge[m].pc \notin {"unlink", "done", "killed"} /\ UNCHANGED output
    BY <1>3 DEF Run, Start, Open, Inventory, ReadIndex, Visit, Verify, MakeTemp, Copy, Check, At
  <2>2. \A n \in Merges \ {m} : merge'[n] = merge[n]
    BY RunAdvances DEF Advances, Become, TypeOK
  <2> QED
    BY <2>1, <2>2 DEF PublishedInv
<1> QED
  BY <1>1, <1>2, <1>3

LEMMA NextInv == MergeInv /\ [Next]_vars => MergeInv'
<1> SUFFICES ASSUME TypeOK, ProgressInv, PublishedInv, [Next]_vars PROVE MergeInv'
  BY DEF MergeInv
<1>1. ASSUME NEW m \in Merges, Run(m) PROVE MergeInv'
  <2>1. output' \in {None, Foreign} \cup Merges /\ temp' \subseteq Merges
    BY <1>1 DEF TypeOK, Run, Start, Open, Inventory, ReadIndex, Visit, Verify, MakeTemp, Copy,
                Check, Link, Unlink, Kill
  <2>2. UNCHANGED input
    BY <1>1, RunAdvances
  <2> QED
    BY <1>1, <2>1, <2>2, RunProgress, RunPublished DEF MergeInv, TypeOK
<1>2. ASSUME NEW p \in P, Write(p) PROVE MergeInv'
  <2>1. PublishedInv'
    BY <1>2 DEF Write, PublishedInv
  <2> QED
    BY <1>2, <2>1, WriteProgress DEF MergeInv
<1>3. CASE Create
  BY <1>3, MergeAssumption DEF Create, MergeInv, TypeOK, ProgressInv, PublishedInv
<1>4. CASE UNCHANGED vars
  BY <1>4 DEF vars, MergeInv, TypeOK, ProgressInv, PublishedInv
<1> QED
  BY <1>1, <1>2, <1>3, <1>4 DEF Next

\* For any merges, inputs and writes, the invariant holds of every state.
THEOREM MergeCorrect == Spec => []MergeInv
BY InitInv, NextInv, PTL DEF Spec

\* Every variable, and what each merge has read, has its type.
THEOREM TypeCorrect == Spec => []TypeOK
<1>1. MergeInv => TypeOK
  BY DEF MergeInv
<1> QED
  BY <1>1, MergeCorrect, PTL

\* However the inputs change meanwhile: what merge_archives links was copied from the
\* bytes it hashed and listed.
THEOREM OutputVerified == Spec => []OutputAsVerified
<1>1. MergeInv => OutputAsVerified
  BY DEF MergeInv, PublishedInv, Verified, OutputAsVerified
<1> QED
  BY <1>1, MergeCorrect, PTL

-----------------------------------------------------------------------------
(* What is published is intact *)

LEMMA IntactFollows ==
    ASSUME MergeInv, NEW m \in Merges, output = m
    PROVE  LET blobs == UNION {merge[m].copied[p].blobs : p \in P}
               leaves == UNION {merge[m].leaves[p] : p \in P}
           IN  /\ \A n \in leaves : n \in blobs /\ Content[n].needs \subseteq blobs
               /\ \A p \in P :
                   /\ merge[m].copied[p].bad = {}
                   /\ Cardinality({n \in leaves : Content[n].platform = p}) = 1
                   /\ \A n \in merge[m].leaves[p] :
                         Content[n].subject \in {None} \cup merge[m].leaves[p]
<1> DEFINE r == merge[m]
           blobs == UNION {r.copied[p].blobs : p \in P}
           leaves == UNION {r.leaves[p] : p \in P}
<1>1. \A p \in P : Verified(r, p) /\ r.copied[p] = r.hashed[p]
  BY DEF MergeInv, PublishedInv
<1> HIDE DEF r
<1>2. ASSUME NEW p \in P
      PROVE  /\ r.copied[p].bad = {}
             /\ LeavesFine(r.leaves[p], p, r.copied[p].blobs)
             /\ Complete(r.leaves[p])
  BY <1>1 DEF Verified
<1>3. ASSUME NEW n \in leaves PROVE n \in blobs /\ Content[n].needs \subseteq blobs
  <2>1. PICK p \in P : n \in r.leaves[p]
    BY <1>3
  <2>2. n \in r.copied[p].blobs /\ Content[n].needs \subseteq r.copied[p].blobs
    BY <1>2, <2>1 DEF LeavesFine
  <2> QED
    BY <2>2
<1>4. ASSUME NEW p \in P
      PROVE  /\ Cardinality({n \in leaves : Content[n].platform = p}) = 1
             /\ \A n \in r.leaves[p] : Content[n].subject \in {None} \cup r.leaves[p]
  <2>1. PICK i \in r.leaves[p] :
            /\ {n \in r.leaves[p] : Content[n].kind = "image"} = {i}
            /\ \A n \in r.leaves[p] : Content[n].kind = "attestation" => Content[n].subject = i
    BY <1>2 DEF Complete
  <2>2. \A n \in r.leaves[p] : Content[n].subject \in {None} \cup r.leaves[p]
    BY <1>2, <2>1 DEF LeavesFine
  <2>3. None \notin P
    BY MergeAssumption
  <2>4. ASSUME NEW n \in leaves, Content[n].platform = p PROVE n = i
    <3>1. PICK q \in P : n \in r.leaves[q]
      BY <2>4
    <3>2. Content[n].kind = "image" /\ Content[n].platform = q
      BY <1>2, <2>3, <2>4, <3>1 DEF LeavesFine
    <3> QED
      BY <2>1, <2>4, <3>1, <3>2
  <2>5. i \in leaves /\ Content[i].platform = p
    <3>1. Content[i].kind = "image"
      BY <2>1
    <3> QED
      BY <1>2, <3>1 DEF LeavesFine
  <2>6. {n \in leaves : Content[n].platform = p} = {i}
    BY <2>4, <2>5
  <2> QED
    BY <2>2, <2>6, FS_Singleton
<1> QED
  BY <1>2, <1>3, <1>4 DEF r

\* Whatever the archives hold and become: what merge_archives links has, for every
\* platform, one image with its own attestations, all they refer to, nothing damaged.
THEOREM OutputComplete == Spec => []OutputIntact
<1>1. MergeInv => OutputIntact
  BY IntactFollows DEF OutputIntact
<1> QED
  BY <1>1, MergeCorrect, PTL
=============================================================================
