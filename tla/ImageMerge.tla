----------------------------- MODULE ImageMerge -----------------------------
(***************************************************************************)
(* scripts/merge_oci_archives.py: one image index for two platforms out of *)
(* two OCI archives, while other processes write to the archives, create   *)
(* the output, or merge as well.                                           *)
(*                                                                         *)
(* A blob is named by its digest, so Content gives what any blob of a name *)
(* holds.  An archive is the blobs in it, those among them whose bytes do  *)
(* not have the digest they are named by, and what its index.json lists.   *)
(* A step ends where an input is read again or the file system changes; a  *)
(* merge may be killed after each.  Names ending in _m are mutants.        *)
(***************************************************************************)
EXTENDS Naturals, FiniteSets, SequencesExt, Functions

CONSTANTS
    Merges,      \* runs of the script, with the same inputs and output
    Platforms,   \* PLATFORMS, in order
    Content,     \* per digest, what the blob holds
    Archives,    \* per platform, what its input may hold
    None,        \* no output, nothing read
    Foreign,     \* a file at the output's path that no merge has made
    MaxDepth,    \* 8
    MaxVisited,  \* 1024
    MaxWrites    \* bound on changes to an input, for TLC

P == ToSet(Platforms)
Names == DOMAIN Content

\* An index lists manifests.  An image or an attestation needs its config, its layers
\* and its subject; what else must be right about it is `sound`.
Blob == [kind : {"index", "image", "attestation", "data"}, manifests : Seq(Names),
         needs : SUBSET Names, platform : P \cup {None}, subject : Names \cup {None},
         sound : BOOLEAN]

Archive == [blobs : SUBSET Names, bad : SUBSET Names, index : Seq(Names)]

ASSUME MergeAssumption ==
    /\ None \notin Merges \cup P \cup Names
    /\ Foreign \notin Merges \cup {None}
    /\ Platforms \in Seq(P) \ {<<>>} /\ IsInjective(Platforms)
    /\ \A n \in Names : Content[n] \in Blob
    /\ \A p \in P : Archives[p] \subseteq Archive
    /\ {MaxDepth, MaxVisited, MaxWrites} \subseteq Nat

VARIABLES
    input,   \* per platform, the archive in the file and its size and times (stamp)
    output,  \* None, Foreign, or the merge that made the file at the path
    temp,    \* merges whose temporary file exists
    merge    \* per merge: where it is and what it has read

vars == <<input, output, temp, merge>>

\* hashed, listed, copied: the archive as it was when the input was opened, when its
\* members were checked and when they were copied; todo: the descriptors that the walk
\* through the input in turn has still to visit; leaves: the manifests found.
Unread == [pc |-> "start", at |-> 1, stamp |-> [p \in P |-> 0],
           hashed |-> [p \in P |-> None], listed |-> [p \in P |-> None],
           todo |-> <<>>, visited |-> 0, leaves |-> [p \in P |-> {}],
           copied |-> [p \in P |-> None]]

Steps == {"start", "open", "inventory", "index", "walk", "mkstemp", "copy", "check", "link",
          "unlink", "cleanup", "done", "failed", "killed"}
Descriptor == [name : Names, depth : 0..MaxDepth + 1]
Reading == [pc : Steps, at : DOMAIN Platforms, stamp : [P -> 0..MaxWrites],
            hashed : [P -> Archive \cup {None}], listed : [P -> Archive \cup {None}],
            todo : Seq(Descriptor), visited : 0..MaxVisited, leaves : [P -> SUBSET Names],
            copied : [P -> Archive \cup {None}]]

TypeOK ==
    /\ input \in [P -> [archive : Archive, stamp : 0..MaxWrites]]
    /\ \A p \in P : input[p].archive \in Archives[p]
    /\ output \in {None, Foreign} \cup Merges
    /\ temp \subseteq Merges
    /\ merge \in [Merges -> Reading]

Init ==
    /\ \E a \in [P -> UNION {Archives[p] : p \in P}] :
        /\ \A p \in P : a[p] \in Archives[p]
        /\ input = [p \in P |-> [archive |-> a[p], stamp |-> 0]]
    /\ output = None
    /\ temp = {}
    /\ merge = [m \in Merges |-> Unread]

-----------------------------------------------------------------------------
(* The graph of an archive *)

\* blob: the descriptor's blob is in the archive.
Held(blobs, names) == names \subseteq blobs

\* image: the platform, the labels and the layers' contents.
ImageFine(blobs, platform, blob) ==
    /\ blob.kind = "image" /\ blob.platform = platform /\ blob.subject = None
    /\ Held(blobs, blob.needs) /\ blob.sound

\* attestation: its subject, and statements about it.
AttestationFine(blobs, blob) ==
    /\ blob.kind = "attestation" /\ blob.platform = None
    /\ Held(blobs, blob.needs) /\ blob.sound

\* validate_complete_graph: one image, and attestations of nothing else.
Complete_m(leaves) == \E i \in leaves : {n \in leaves : Content[n].kind = "image"} = {i}
Complete(leaves) ==
    \E i \in leaves :
        /\ {n \in leaves : Content[n].kind = "image"} = {i}
        /\ \A n \in leaves : Content[n].kind = "attestation" => Content[n].subject = i

\* The manifests that an index lists, depth indexes below index.json.
Listing(manifests, depth) ==
    [k \in DOMAIN manifests |-> [name |-> manifests[k], depth |-> depth]]

-----------------------------------------------------------------------------
(* Archive.__init__ and merge_archives *)

At(m, pc) == merge[m].pc = pc
Reads(m) == Platforms[merge[m].at]
Become(m, new) == merge' = [merge EXCEPT ![m] = new]
To(m, pc) == [merge[m] EXCEPT !.pc = pc]

\* The next input is in turn, or all have had theirs.
Turn(new, again, then) ==
    IF new.at < Len(Platforms) THEN [new EXCEPT !.at = @ + 1, !.pc = again]
    ELSE [new EXCEPT !.at = 1, !.pc = then]

Start(m) ==
    /\ At(m, "start")
    /\ Become(m, To(m, IF output = None THEN "open" ELSE "failed"))
    /\ UNCHANGED <<input, output, temp>>

\* fstat, then the digest of the whole file.
Open(m) ==
    /\ At(m, "open")
    /\ Become(m, [To(m, "inventory") EXCEPT !.stamp[Reads(m)] = input[Reads(m)].stamp,
                                            !.hashed[Reads(m)] = input[Reads(m)].archive,
                                            !.visited = 0])
    /\ UNCHANGED <<input, output, temp>>

\* Every blob has the digest it is named by, those nobody refers to included.
Inventory(m) ==
    /\ At(m, "inventory")
    /\ LET archive == input[Reads(m)].archive
       IN  IF archive.bad = {}
           THEN Become(m, [To(m, "index") EXCEPT !.listed[Reads(m)] = archive])
           ELSE Become(m, To(m, "failed"))
    /\ UNCHANGED <<input, output, temp>>

Unchanged(m) == input[Reads(m)].stamp = merge[m].stamp[Reads(m)]

\* walk_index, of index.json.
ReadIndex(m) ==
    /\ At(m, "index")
    /\ LET index == input[Reads(m)].archive.index
       IN  IF index # <<>> THEN Become(m, [To(m, "walk") EXCEPT !.todo = Listing(index, 0)])
           ELSE Become(m, To(m, "failed"))
    /\ UNCHANGED <<input, output, temp>>

\* walk, of the next descriptor, depth first; walk_index, of the index it may be.
Visit_m(m) ==
    /\ At(m, "walk") /\ merge[m].todo # <<>>
    /\ LET next == Head(merge[m].todo)
           blob == Content[next.name]
           blobs == merge[m].listed[Reads(m)].blobs
           new == [merge[m] EXCEPT !.todo = Tail(@), !.visited = @ + 1]
       IN  IF next.depth > MaxDepth \/ new.visited > MaxVisited \/ ~Held(blobs, {next.name})
           THEN Become(m, To(m, "failed"))
           ELSE IF blob.kind = "index" /\ blob.manifests # <<>>
           THEN Become(m, [new EXCEPT !.todo = Listing(blob.manifests, next.depth + 1) \o @])
           ELSE IF ImageFine(blobs, Reads(m), blob) \/ AttestationFine(blobs, blob)
           THEN Become(m, [new EXCEPT !.leaves[Reads(m)] = @ \cup {next.name}])
           ELSE Become(m, To(m, "failed"))
    /\ UNCHANGED <<input, output, temp>>
Visit(m) ==
    /\ At(m, "walk") /\ merge[m].todo # <<>>
    /\ LET next == Head(merge[m].todo)
           blob == Content[next.name]
           blobs == merge[m].listed[Reads(m)].blobs
           new == [merge[m] EXCEPT !.todo = Tail(@), !.visited = @ + 1]
       IN  IF next.depth > MaxDepth \/ new.visited > MaxVisited \/ ~Held(blobs, {next.name})
           THEN Become(m, To(m, "failed"))
           ELSE IF blob.kind = "index" /\ blob.manifests # <<>>
           THEN Become(m, [new EXCEPT !.todo = Listing(blob.manifests, next.depth + 1) \o @])
           ELSE IF /\ ImageFine(blobs, Reads(m), blob) \/ AttestationFine(blobs, blob)
                   /\ next.name \notin merge[m].leaves[Reads(m)]
           THEN Become(m, [new EXCEPT !.leaves[Reads(m)] = @ \cup {next.name}])
           ELSE Become(m, To(m, "failed"))
    /\ UNCHANGED <<input, output, temp>>

\* The walk is over: validate_complete_graph, then unchanged().  What a changed input
\* would have made the walk read is left out: its merge fails here in any case.
Verify(m) ==
    /\ At(m, "walk") /\ merge[m].todo = <<>>
    /\ Become(m, IF Complete(merge[m].leaves[Reads(m)]) /\ Unchanged(m)
                 THEN Turn(merge[m], "open", "mkstemp") ELSE To(m, "failed"))
    /\ UNCHANGED <<input, output, temp>>

MakeTemp(m) ==
    /\ At(m, "mkstemp")
    /\ \/ temp' = temp \cup {m} /\ Become(m, To(m, "copy"))
       \/ UNCHANGED temp /\ Become(m, To(m, "failed"))
    /\ UNCHANGED <<input, output>>

\* All blobs listed, as they are now; or the disk is full.
Copy(m) ==
    /\ At(m, "copy")
    /\ \/ Become(m, Turn([merge[m] EXCEPT !.copied[Reads(m)] = input[Reads(m)].archive],
                         "copy", "check"))
       \/ Become(m, To(m, "cleanup"))
    /\ UNCHANGED <<input, output, temp>>

Check_m(m) ==
    /\ At(m, "check")
    /\ Become(m, Turn(merge[m], "check", "link"))
    /\ UNCHANGED <<input, output, temp>>
Check(m) ==
    /\ At(m, "check")
    /\ Become(m, IF Unchanged(m) THEN Turn(merge[m], "check", "link") ELSE To(m, "cleanup"))
    /\ UNCHANGED <<input, output, temp>>

\* os.link refuses a path that exists.
Link(m) ==
    /\ At(m, "link")
    /\ IF output = None
       THEN output' = m /\ Become(m, To(m, "unlink"))
       ELSE UNCHANGED output /\ Become(m, To(m, "cleanup"))
    /\ UNCHANGED <<input, temp>>

\* finally: an error of unlink is suppressed.
Unlink(m) ==
    /\ \/ At(m, "unlink") /\ Become(m, To(m, "done"))
       \/ At(m, "cleanup") /\ Become(m, To(m, "failed"))
    /\ temp' \in {temp \ {m}, temp}
    /\ UNCHANGED <<input, output>>

Kill(m) ==
    /\ merge[m].pc \notin {"done", "failed", "killed"}
    /\ Become(m, To(m, "killed"))
    /\ UNCHANGED <<input, output, temp>>

-----------------------------------------------------------------------------
(* Other processes *)

\* An input is written in place.
Write(p) ==
    /\ input[p].stamp < MaxWrites
    /\ \E a \in Archives[p] \ {input[p].archive} :
          input' = [input EXCEPT ![p] = [archive |-> a, stamp |-> input[p].stamp + 1]]
    /\ UNCHANGED <<output, temp, merge>>

Create ==
    /\ output = None
    /\ output' = Foreign
    /\ UNCHANGED <<input, temp, merge>>

-----------------------------------------------------------------------------
Run(m) ==
    \/ Start(m) \/ Open(m) \/ Inventory(m) \/ ReadIndex(m) \/ Visit(m) \/ Verify(m)
    \/ MakeTemp(m) \/ Copy(m) \/ Check(m) \/ Link(m) \/ Unlink(m) \/ Kill(m)

Next == (\E m \in Merges : Run(m)) \/ (\E p \in P : Write(p)) \/ Create

Spec == Init /\ [][Next]_vars

-----------------------------------------------------------------------------
(* Properties *)

\* The archive's graph is a tree of indexes over one image of the platform and its
\* attestations, within the limits, and everything it refers to is there.
Mergeable(archive, p) ==
    LET level[k \in 0..MaxDepth + 1] ==  \* names behind k indexes from index.json
            IF k = 0 THEN ToSet(archive.index)
            ELSE UNION {ToSet(Content[n].manifests) : n \in level[k - 1]}
        reach == UNION {level[k] : k \in 0..MaxDepth}
        indexes == {n \in reach : Content[n].kind = "index"}
        lists == {archive.index} \cup {Content[n].manifests : n \in indexes}
        found == reach \ indexes
    IN  /\ level[MaxDepth + 1] = {}
        /\ Cardinality(reach) <= MaxVisited
        /\ \A l \in lists : l # <<>> /\ IsInjective(l)
        /\ \A n \in reach : Cardinality({l \in lists : n \in ToSet(l)}) = 1
        /\ archive.bad = {} /\ reach \subseteq archive.blobs
        /\ \A n \in found : Content[n].sound /\ Content[n].needs \subseteq archive.blobs
        /\ \E i \in found :
            /\ Content[i].kind = "image" /\ Content[i].platform = p /\ Content[i].subject = None
            /\ \A n \in found \ {i} :
                /\ Content[n].kind = "attestation" /\ Content[n].platform = None
                /\ Content[n].subject = i

\* An input that nobody changes is accepted exactly when it is mergeable, however
\* its indexes are nested.
WalkDecides ==
    [][\A m \in Merges :
         merge[m].pc \in {"index", "walk"} /\ merge'[m].pc \notin {"index", "walk", "killed"} =>
             (Unchanged(m) => (merge'[m].pc # "failed"
                                <=> Mergeable(input[Reads(m)].archive, Reads(m))))]_vars

\* What is published was copied from the bytes that were hashed and verified, though
\* they were read at three different times.
OutputAsVerified ==
    \A m \in Merges : output = m =>
        \A p \in P : /\ merge[m].copied[p] = merge[m].listed[p]
                      /\ merge[m].copied[p] = merge[m].hashed[p]

\* No blob of the output is damaged, and all that its index leads to is in it, for
\* each platform one image with its own attestations.
OutputIntact ==
    \A m \in Merges : output = m =>
        LET blobs == UNION {merge[m].copied[p].blobs : p \in P}
            leaves == UNION {merge[m].leaves[p] : p \in P}
        IN  /\ \A n \in leaves : n \in blobs /\ Content[n].needs \subseteq blobs
            /\ \A p \in P :
                /\ merge[m].copied[p].bad = {}
                /\ Cardinality({n \in leaves : Content[n].platform = p}) = 1
                /\ \A n \in merge[m].leaves[p] :
                      Content[n].subject \in {None} \cup merge[m].leaves[p]
=============================================================================
