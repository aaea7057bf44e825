------------------------ MODULE GuestArtifact_proofs ------------------------
(***************************************************************************)
(* The safety of GuestArtifact for any number of source versions and runs. *)
(***************************************************************************)
EXTENDS GuestArtifact, TLAPS

Whole(bytes) == bytes \in Bytes /\ Parses(bytes)

\* What was sent for deployment can be taken for a program, and so has an id.
WholeBinariesAreSent == \A tx \in pool : tx.kind = "deploy" => Parses(tx.bytecode)

\* A distribution belongs to a program on the chain.
CommittedIsDeployed == \A p \in ProgramIds : account[p] # None => p \in programs

\* A run that has seen the data, and the manifest, name a committed program.
SeenIsCommitted ==
    /\ \A r \in Runs : host[r].stage \in {"seen", "done"} => account[host[r].program] # None
    /\ manifest # None =>
         manifest.program.tree = AIRDROP_BINARY /\ account[manifest.program] # None

\* What the build holds in memory while it works on a tree.
InMemory ==
    LET tree == bin_dirs[build.dir] IN
    /\ build.stage \in {"emitting", "pack", "writing"} =>
         build.bytes \in Bytes /\ build.bytes.tree = tree
    /\ build.stage = "emitting" => Parses(build.bytes)
    /\ build.stage \in {"pack", "writing"} => build.bytes.stripped
    /\ build.stage \in {"pack", "writing"} /\ tree = "local" => Parses(build.bytes)

\* The tree the host reads, through a build: whole once it is emitted, stripped once
\* the build has gone past it.
LocalTree ==
    /\ build.stage \in {"emitting", "emitted"} => build.dir = 1
    /\ build.stage \in {"emitted", "strip"} /\ build.dir = 1 => Whole(artifact["local"])
    /\ build.stage = "done" \/ (build.stage \in {"strip", "pack", "writing"} /\ build.dir = 2)
         => Whole(artifact["local"]) /\ artifact["local"].stripped

\* An artifact is of the tree it lies in.
InItsTree ==
    /\ \A t \in Trees : artifact[t] # None => artifact[t].tree = t
    /\ docker # None => docker.tree = "docker"

FileType ==
    /\ source \in 1 .. MaxSource
    /\ artifact \in [Trees -> Bytes \cup {None}]
    /\ build \in [stage : BuildStages, dir : {1, 2}, bytes : Bytes \cup {None}]
    /\ docker \in Bytes \cup {None}

HostType ==
    /\ host \in [Runs -> [stage : HostStages, program : ProgramIds \cup {None}]]
    /\ \A r \in Runs : host[r].stage \notin {"off", "dead"} =>
         host[r].program \in {p \in ProgramIds : p.tree = AIRDROP_BINARY}
    /\ manifest \in [program : ProgramIds] \cup {None}
    /\ pool \subseteq Txs
    /\ programs \subseteq ProgramIds
    /\ account \in [ProgramIds -> Runs \cup {None}]

\* The files, whatever the runs of airdrop_deploy do.
FileInv == FileType /\ InMemory /\ LocalTree /\ InItsTree

\* The runs and the chain, whatever the builds do.
HostInv ==
    /\ HostType
    /\ WholeBinariesAreSent
    /\ RunsCallWhatTheyDeployed
    /\ CommittedIsDeployed
    /\ SeenIsCommitted

IInv == FileInv /\ HostInv

-----------------------------------------------------------------------------

LEMMA BinDirs == DOMAIN bin_dirs = {1, 2} /\ bin_dirs[1] = "local" /\ bin_dirs[2] = "docker"
                 /\ Len(bin_dirs) = 2
BY DEF bin_dirs

\* The two parts of the invariant contain the type invariant.
LEMMA TypeParts == TypeOK <=> FileType /\ HostType
BY BinDirs DEF TypeOK, FileType, HostType

\* What is on its way into a file, and what it becomes there.
LEMMA BytesFacts ==
    /\ \A b \in Bytes, cut \in Cuts : Prefix(b, cut) \in Bytes /\ Prefix(b, cut).tree = b.tree
    /\ \A b \in Bytes : ProgramId(b) \in ProgramIds /\ ProgramId(b).tree = b.tree
    /\ \A t \in Trees, v \in 1 .. MaxSource :
         Built(t, v) \in Bytes /\ Built(t, v).tree = t /\ Built(t, v).cut = "none"
BY DEF Bytes, Cuts, Prefix, ProgramId, ProgramIds, Built

-----------------------------------------------------------------------------
(* The builds *)

LEMMA EmitKeeps == ASSUME FileInv, Emit PROVE FileInv'
<1>1. PICK cut \in Cuts :
         /\ artifact' = [artifact EXCEPT !["local"] = Prefix(Built("local", source), cut)]
         /\ build' = [stage |-> "emitting", dir |-> 1, bytes |-> Built("local", source)]
         /\ UNCHANGED <<source, docker>>
  BY DEF Emit, BeginWrite
<1>2. /\ Built("local", source) \in Bytes /\ Built("local", source).tree = "local"
      /\ Parses(Built("local", source))
      /\ Prefix(Built("local", source), cut) \in Bytes
      /\ Prefix(Built("local", source), cut).tree = "local"
  BY BytesFacts, NoneIsNothing DEF FileInv, FileType, Trees, Parses
<1>3. FileType'
  BY <1>1, <1>2 DEF FileInv, FileType, Trees, BuildStages
<1>4. InMemory' /\ LocalTree'
  BY <1>1, <1>2, BinDirs DEF InMemory, LocalTree
<1>5. InItsTree'
  BY <1>1, <1>2 DEF FileInv, FileType, InItsTree, Trees
<1> QED BY <1>3, <1>4, <1>5 DEF FileInv

LEMMA EndEmitKeeps == ASSUME FileInv, EndEmit PROVE FileInv'
<1>1. /\ build.stage = "emitting" /\ build.dir = 1 /\ build \in [stage : BuildStages, dir : {1, 2}, bytes : Bytes \cup {None}]
      /\ build.bytes \in Bytes /\ build.bytes.tree = "local" /\ Parses(build.bytes)
  BY BinDirs DEF EndEmit, FileInv, FileType, InMemory, LocalTree
<1>2. /\ artifact' = [artifact EXCEPT !["local"] = build.bytes]
      /\ build' = [build EXCEPT !.stage = "emitted"]
      /\ UNCHANGED <<source, docker>>
  BY DEF EndEmit, EndWrite
<1>3. FileType'
  BY <1>1, <1>2 DEF FileInv, FileType, Trees, BuildStages
<1>4. artifact'["local"] = build.bytes /\ build'.stage = "emitted" /\ build'.dir = 1
  BY <1>1, <1>2 DEF FileInv, FileType, Trees
<1>5. InMemory' /\ LocalTree'
  BY <1>1, <1>4 DEF InMemory, LocalTree, Whole
<1>6. InItsTree'
  BY <1>1, <1>2 DEF FileInv, FileType, InItsTree, Trees
<1> QED BY <1>3, <1>5, <1>6 DEF FileInv

LEMMA LocateKeeps == ASSUME FileInv, locate_llvm_strip PROVE FileInv'
<1>1. PICK found \in BOOLEAN :
         build' = [build EXCEPT !.stage = IF found THEN "strip" ELSE "off"]
  BY DEF locate_llvm_strip
<1>2. build.stage = "emitted" /\ build.dir = 1 /\ UNCHANGED <<source, artifact, docker>>
      /\ build \in [stage : BuildStages, dir : {1, 2}, bytes : Bytes \cup {None}]
  BY DEF locate_llvm_strip, FileInv, FileType, LocalTree
<1>3. build'.stage \in {"strip", "off"} /\ build'.dir = 1 /\ build'.bytes = build.bytes
      /\ build' \in [stage : BuildStages, dir : {1, 2}, bytes : Bytes \cup {None}]
  BY <1>1, <1>2 DEF BuildStages, Idle
<1> QED
  BY <1>2, <1>3 DEF FileInv, FileType, InMemory, LocalTree, InItsTree, Whole

\* The next tree, or the end: nothing is in memory any more.
LEMMA AfterDirFacts ==
    ASSUME NEW b \in [stage : BuildStages, dir : {1, 2}, bytes : Bytes \cup {None}]
    PROVE  /\ AfterDir(b) \in [stage : BuildStages, dir : {1, 2}, bytes : Bytes \cup {None}]
           /\ b.dir = 1 => AfterDir(b).stage = "strip" /\ AfterDir(b).dir = 2
           /\ b.dir = 2 => AfterDir(b).stage = "done"
<1>1. "strip" \in BuildStages /\ "done" \in BuildStages
  BY DEF BuildStages, Idle
<1>2. CASE b.dir = 1
  <2>1. b.dir # Len(bin_dirs) /\ b.dir + 1 = 2
    BY <1>2, BinDirs
  <2>2. AfterDir(b) = [b EXCEPT !.stage = "strip", !.dir = b.dir + 1]
    BY <2>1, Zenon DEF AfterDir
  <2>3. AfterDir(b) = [b EXCEPT !.stage = "strip", !.dir = 2]
    BY <2>1, <2>2, Zenon
  <2>4. [b EXCEPT !.stage = "strip"] \in
            [stage : {"strip"}, dir : {1, 2}, bytes : Bytes \cup {None}]
    BY <1>1
  <2>5. AfterDir(b) \in [stage : {"strip"}, dir : {2}, bytes : Bytes \cup {None}]
    BY <2>3, <2>4
  <2> QED BY <1>1, <1>2, <2>5
<1>3. CASE b.dir = 2
  <2>1. AfterDir(b) = [b EXCEPT !.stage = "done"]
    BY <1>3, BinDirs DEF AfterDir
  <2> QED BY <1>1, <1>3, <2>1
<1> QED BY <1>2, <1>3

LEMMA UnpackKeeps == ASSUME FileInv, Unpack PROVE FileInv'
<1> DEFINE Build == [stage : BuildStages, dir : {1, 2}, bytes : Bytes \cup {None}]
           blob == artifact[bin_dirs[build.dir]]
<1>1. build.stage = "strip" /\ build \in Build /\ UNCHANGED <<source, artifact, docker>>
  BY DEF Unpack, FileInv, FileType
<1>2. blob \in Bytes \cup {None} /\ (blob # None => blob.tree = bin_dirs[build.dir])
  BY <1>1, BinDirs DEF FileInv, FileType, InItsTree, Trees
<1>3. CASE blob = None
  <2>1. build.dir = 2 /\ build' = AfterDir(build)
    BY <1>1, <1>3, BinDirs DEF Unpack, FileInv, LocalTree, Whole, Parses
  <2>2. build' \in Build /\ build'.stage = "done"
    BY <1>1, <2>1, AfterDirFacts
  <2> QED
    BY <1>1, <2>1, <2>2 DEF FileInv, FileType, InMemory, LocalTree, InItsTree, Whole
<1>4. CASE blob # None /\ blob.cut = "user"
  <2>1. build' = [build EXCEPT !.stage = "off"]
    BY <1>4 DEF Unpack
  <2>2. build' \in Build /\ build'.stage = "off"
    BY <1>1, <2>1 DEF BuildStages, Idle
  <2> QED
    BY <1>1, <2>2 DEF FileInv, FileType, InMemory, LocalTree, InItsTree, Whole
<1>5. CASE blob # None /\ blob.cut # "user"
  <2> DEFINE stripped == [blob EXCEPT !.stripped = TRUE]
  <2>1. build' = [build EXCEPT !.stage = "pack", !.bytes = stripped]
    BY <1>5 DEF Unpack
  <2>2. stripped \in Bytes /\ stripped.tree = bin_dirs[build.dir] /\ stripped.stripped
        /\ stripped.cut = blob.cut
    BY <1>2, <1>5 DEF Bytes
  <2>3. build' \in Build /\ build'.stage = "pack" /\ build'.dir = build.dir
        /\ build'.bytes = stripped
    BY <1>1, <2>1, <2>2 DEF BuildStages
  <2>4. InMemory'
    <3>1. bin_dirs[build.dir] = "local" => Parses(stripped)
      BY <1>1, <2>2, BinDirs, NoneIsNothing DEF FileInv, LocalTree, Whole, Parses
    <3> QED BY <2>2, <2>3, <3>1 DEF InMemory, bin_dirs
  <2>5. LocalTree'
    BY <1>1, <2>3 DEF FileInv, LocalTree, Whole
  <2> QED BY <1>1, <2>3, <2>4, <2>5 DEF FileInv, FileType, InItsTree
<1> QED BY <1>3, <1>4, <1>5

LEMMA PackKeeps == ASSUME FileInv, Pack PROVE FileInv'
<1> DEFINE Build == [stage : BuildStages, dir : {1, 2}, bytes : Bytes \cup {None}]
           tree == bin_dirs[build.dir]
<1>1. PICK cut \in Cuts : artifact' = [artifact EXCEPT ![tree] = Prefix(build.bytes, cut)]
  BY DEF Pack, BeginWrite
<1>2. build.stage = "pack" /\ build \in Build /\ UNCHANGED <<source, docker>>
      /\ build' = [build EXCEPT !.stage = "writing"]
  BY DEF Pack, FileInv, FileType
<1>3. build' \in Build /\ build'.stage = "writing" /\ build'.dir = build.dir
      /\ build'.bytes = build.bytes
  BY <1>2 DEF BuildStages
<1>4. tree \in Trees /\ Prefix(build.bytes, cut) \in Bytes /\ Prefix(build.bytes, cut).tree = tree
  BY <1>2, BytesFacts, BinDirs DEF FileInv, InMemory, Trees
<1>5. FileType' /\ InItsTree'
  BY <1>1, <1>2, <1>3, <1>4 DEF FileInv, FileType, InItsTree
<1>6. InMemory'
  BY <1>2, <1>3 DEF FileInv, InMemory
<1>7. LocalTree'
  <2>1. build.dir = 2 => artifact'["local"] = artifact["local"]
    BY <1>1, BinDirs DEF FileInv, FileType, Trees
  <2> QED BY <1>2, <1>3, <2>1 DEF FileInv, LocalTree, Whole
<1> QED BY <1>5, <1>6, <1>7 DEF FileInv

LEMMA EndPackKeeps == ASSUME FileInv, EndPack PROVE FileInv'
<1> DEFINE Build == [stage : BuildStages, dir : {1, 2}, bytes : Bytes \cup {None}]
           tree == bin_dirs[build.dir]
<1>1. build.stage = "writing" /\ build \in Build /\ UNCHANGED <<source, docker>>
      /\ artifact' = [artifact EXCEPT ![tree] = build.bytes]
      /\ build' = AfterDir(build)
  BY DEF EndPack, EndWrite, FileInv, FileType
<1>2. tree \in Trees /\ build.bytes \in Bytes /\ build.bytes.tree = tree
      /\ build.bytes.stripped /\ (tree = "local" => Parses(build.bytes))
  BY <1>1, BinDirs DEF FileInv, InMemory, Trees
<1>3. build' \in Build /\ build'.stage \in {"strip", "done"}
      /\ (build'.stage = "strip" => build'.dir = 2)
  BY <1>1, AfterDirFacts
<1>4. Whole(artifact'["local"]) /\ artifact'["local"].stripped
  <2>1. CASE build.dir = 1
    BY <1>1, <1>2, <2>1, BinDirs DEF FileInv, FileType, Trees, Whole
  <2>2. CASE build.dir = 2
    BY <1>1, <2>2, BinDirs DEF FileInv, FileType, LocalTree, Trees, Whole
  <2> QED BY <1>1, <2>1, <2>2
<1>5. FileType' /\ InItsTree'
  BY <1>1, <1>2, <1>3 DEF FileInv, FileType, InItsTree
<1>6. InMemory' /\ LocalTree'
  BY <1>3, <1>4 DEF InMemory, LocalTree, Whole
<1> QED BY <1>5, <1>6 DEF FileInv

LEMMA BuildStopsKeeps == ASSUME FileInv, BuildStops PROVE FileInv'
<1>1. build' = [build EXCEPT !.stage = "off"] /\ UNCHANGED <<source, artifact, docker>>
      /\ build \in [stage : BuildStages, dir : {1, 2}, bytes : Bytes \cup {None}]
  BY DEF BuildStops, FileInv, FileType
<1>2. build'.stage = "off"
      /\ build' \in [stage : BuildStages, dir : {1, 2}, bytes : Bytes \cup {None}]
  BY <1>1 DEF BuildStages, Idle
<1> QED BY <1>1, <1>2 DEF FileInv, FileType, InMemory, LocalTree, InItsTree, Whole

\* A docker build touches the other tree only.
LEMMA DockerKeeps == ASSUME FileInv, DockerBegins \/ DockerEnds PROVE FileInv'
<1>1. /\ UNCHANGED <<source, build>> /\ docker' \in Bytes \cup {None}
      /\ docker' # None => docker'.tree = "docker"
      /\ \/ UNCHANGED artifact
         \/ \E b \in Bytes : b.tree = "docker" /\ artifact' = [artifact EXCEPT !["docker"] = b]
  <2>1. CASE DockerBegins
    <3> DEFINE bytes == Built("docker", source)
    <3>1. bytes \in Bytes /\ bytes.tree = "docker"
      BY BytesFacts DEF FileInv, FileType, Trees
    <3>2. PICK cut \in Cuts : artifact' = [artifact EXCEPT !["docker"] = Prefix(bytes, cut)]
      BY <2>1 DEF DockerBegins, BeginWrite
    <3>3. Prefix(bytes, cut) \in Bytes /\ Prefix(bytes, cut).tree = "docker"
      BY <3>1, BytesFacts
    <3> QED BY <2>1, <3>1, <3>2, <3>3 DEF DockerBegins
  <2>2. CASE DockerEnds
    BY <2>2 DEF DockerEnds, EndWrite, FileInv, FileType, InItsTree
  <2> QED BY <2>1, <2>2
<1>2. FileType' /\ InItsTree' /\ artifact'["local"] = artifact["local"]
  BY <1>1 DEF FileInv, FileType, InItsTree, Trees
<1> QED BY <1>1, <1>2 DEF FileInv, InMemory, LocalTree, Whole

LEMMA FileSteps ==
    ASSUME FileInv,
           Edit \/ Emit \/ BuildStep \/ BuildStops \/ DockerBegins \/ DockerEnds
               \/ UNCHANGED fileVars
    PROVE  FileInv'
<1>1. CASE Edit \/ UNCHANGED fileVars
  BY <1>1, ArtifactBounds
  DEF Edit, fileVars, FileInv, FileType, InMemory, LocalTree, InItsTree, Whole, Bytes
<1> QED
  BY <1>1, EmitKeeps, EndEmitKeeps, LocateKeeps, UnpackKeeps, PackKeeps, EndPackKeeps,
     BuildStopsKeeps, DockerKeeps DEF BuildStep

-----------------------------------------------------------------------------
(* The runs and the chain *)

\* Nothing here looks at the files.
LEMMA HostStutter ==
    ASSUME HostInv, UNCHANGED <<hostVars, pool, chainVars>> PROVE HostInv'
BY DEF HostInv, HostType, WholeBinariesAreSent, RunsCallWhatTheyDeployed,
       CommittedIsDeployed, SeenIsCommitted, hostVars, chainVars

\* A run whose program the chain has, or will have from the pool.
Provided(r) ==
    \/ host[r].program \in programs
    \/ \E tx \in pool : tx.kind = "deploy" /\ ProgramId(tx.bytecode) = host[r].program

HostRecord == [stage : HostStages, program : ProgramIds \cup {None}]

\* A run takes a step that sends nothing.
LEMMA GotoKeeps ==
    ASSUME HostInv, NEW r \in Runs, NEW from \in HostStages, NEW to \in HostStages,
           Goto(r, from, to), UNCHANGED <<manifest, pool, chainVars>>,
           to \notin {"off", "dead"} => from \notin {"off", "dead"},
           to \in {"deployed", "sent", "seen", "done"} => Provided(r),
           to \in {"seen", "done"} => account[host[r].program] # None
    PROVE  HostInv'
<1>1. host[r].stage = from /\ host' = [host EXCEPT ![r].stage = to]
      /\ host \in [Runs -> HostRecord]
  BY DEF Goto, HostInv, HostType, HostRecord
<1>2. /\ host' \in [Runs -> HostRecord]
      /\ \A q \in Runs : host'[q].program = host[q].program
      /\ \A q \in Runs : host'[q].stage = IF q = r THEN to ELSE host[q].stage
  BY <1>1 DEF HostRecord
<1>3. UNCHANGED <<manifest, pool, programs, account>>
  BY DEF chainVars
<1>4. HostType'
  BY <1>1, <1>2, <1>3 DEF HostInv, HostType, HostRecord
<1>5. RunsCallWhatTheyDeployed'
  BY <1>2, <1>3 DEF HostInv, RunsCallWhatTheyDeployed, Provided
<1>6. SeenIsCommitted'
  BY <1>2, <1>3 DEF HostInv, SeenIsCommitted
<1> QED BY <1>3, <1>4, <1>5, <1>6
        DEF HostInv, WholeBinariesAreSent, CommittedIsDeployed

\* What is sent is a call, or the bytecode of a whole binary.
LEMMA SendKeeps ==
    ASSUME HostInv, NEW tx \in Txs, tx.kind = "deploy" => Parses(tx.bytecode),
           pool' = pool \cup {tx}, UNCHANGED <<hostVars, chainVars>>
    PROVE  HostInv'
BY DEF HostInv, HostType, WholeBinariesAreSent, RunsCallWhatTheyDeployed,
       CommittedIsDeployed, SeenIsCommitted, hostVars, chainVars

LEMMA LoadKeeps == ASSUME FileInv, HostInv, NEW r \in Runs, load_program(r) PROVE HostInv'
<1> DEFINE bytes == artifact[AIRDROP_BINARY]
           loaded == IF Parses(bytes) THEN [stage |-> "loaded", program |-> ProgramId(bytes)]
                                      ELSE [stage |-> "dead", program |-> None]
<1>1. host[r].stage = "off" /\ host' = [host EXCEPT ![r] = loaded]
      /\ UNCHANGED <<manifest, pool, programs, account>> /\ host \in [Runs -> HostRecord]
  BY DEF load_program, chainVars, HostInv, HostType, HostRecord
<1>2. loaded \in HostRecord /\ loaded.stage \in {"loaded", "dead"}
      /\ (loaded.stage = "loaded" => loaded.program \in ProgramIds
                                     /\ loaded.program.tree = AIRDROP_BINARY)
  <2>1. CASE Parses(bytes)
    <3>1. bytes \in Bytes /\ bytes.tree = AIRDROP_BINARY
      BY <2>1 DEF FileInv, FileType, InItsTree, Trees, AIRDROP_BINARY, Parses
    <3> QED BY <2>1, <3>1, BytesFacts DEF HostRecord, HostStages
  <2>2. CASE ~Parses(bytes)
    BY <2>2 DEF HostRecord, HostStages, Ended
  <2> QED BY <2>1, <2>2
<1>3. host' \in [Runs -> HostRecord] /\ \A q \in Runs : host'[q] = IF q = r THEN loaded ELSE host[q]
  BY <1>1, <1>2
<1>4. HostType'
  BY <1>1, <1>2, <1>3 DEF HostInv, HostType, HostRecord
<1>5. RunsCallWhatTheyDeployed' /\ SeenIsCommitted'
  BY <1>1, <1>2, <1>3 DEF HostInv, RunsCallWhatTheyDeployed, SeenIsCommitted
<1> QED BY <1>1, <1>4, <1>5 DEF HostInv, WholeBinariesAreSent, CommittedIsDeployed

LEMMA EnsureKeeps ==
    ASSUME FileInv, HostInv, NEW r \in Runs, ensure_program_deployed(r) PROVE HostInv'
<1> DEFINE bytes == artifact[AIRDROP_BINARY]
           tx == DeployTx(bytes)
<1>1. UNCHANGED <<manifest, programs, account>> /\ host \in [Runs -> HostRecord]
  BY DEF ensure_program_deployed, chainVars, HostInv, HostType, HostRecord
<1>2. CASE Deployable(bytes, host[r].program)
  <2>1. Goto(r, "deploying", "deployed") /\ pool' = pool \cup {tx}
    BY <1>2 DEF ensure_program_deployed
  <2>2. bytes \in Bytes /\ Parses(bytes) /\ ProgramId(bytes) = host[r].program
    BY <1>2 DEF Deployable, Parses, FileInv, FileType, Trees, AIRDROP_BINARY
  <2>3. tx \in Txs /\ tx.kind = "deploy" /\ tx.bytecode = bytes
    BY <2>2 DEF DeployTx, Txs
  <2>4. host[r].stage = "deploying" /\ host' = [host EXCEPT ![r].stage = "deployed"]
    BY <2>1 DEF Goto
  <2>5. /\ host' \in [Runs -> HostRecord]
        /\ \A q \in Runs : host'[q].program = host[q].program
        /\ \A q \in Runs : host'[q].stage = IF q = r THEN "deployed" ELSE host[q].stage
    BY <1>1, <2>4 DEF HostRecord, HostStages
  <2>6. HostType'
    BY <1>1, <2>1, <2>3, <2>4, <2>5 DEF HostInv, HostType, HostRecord
  <2>7. WholeBinariesAreSent'
    BY <2>1, <2>2, <2>3 DEF HostInv, WholeBinariesAreSent
  <2>8. RunsCallWhatTheyDeployed'
    <3> SUFFICES ASSUME NEW q \in Runs, host'[q].stage \in {"deployed", "sent", "seen", "done"}
                 PROVE  \/ host'[q].program \in programs'
                        \/ \E t \in pool' : t.kind = "deploy" /\ ProgramId(t.bytecode) = host'[q].program
      BY DEF RunsCallWhatTheyDeployed
    <3>1. CASE q = r
      BY <2>1, <2>2, <2>3, <2>5, <3>1
    <3>2. CASE q # r
      BY <1>1, <2>1, <2>5, <3>2 DEF HostInv, RunsCallWhatTheyDeployed
    <3> QED BY <3>1, <3>2
  <2>9. SeenIsCommitted' /\ CommittedIsDeployed'
    BY <1>1, <2>5 DEF HostInv, SeenIsCommitted, CommittedIsDeployed
  <2> QED BY <2>6, <2>7, <2>8, <2>9 DEF HostInv
<1>3. CASE ~Deployable(bytes, host[r].program)
  <2>1. Goto(r, "deploying", "dead") /\ UNCHANGED <<manifest, pool, chainVars>>
    BY <1>3 DEF ensure_program_deployed
  <2> QED BY <2>1, GotoKeeps DEF HostStages, Ended
<1> QED BY <1>2, <1>3

LEMMA SendInitializeKeeps ==
    ASSUME HostInv, NEW r \in Runs, SendInitialize(r) PROVE HostInv'
<1> DEFINE tx == InitializeTx(r)
<1>1. host[r].stage = "deployed" /\ host' = [host EXCEPT ![r].stage = "sent"]
      /\ pool' = pool \cup {tx} /\ UNCHANGED <<manifest, programs, account>>
      /\ host \in [Runs -> HostRecord]
  BY DEF SendInitialize, Goto, chainVars, HostInv, HostType, HostRecord
<1>2. tx \in Txs /\ tx.kind = "initialize"
  BY <1>1 DEF InitializeTx, Txs, HostInv, HostType
<1>3. /\ host' \in [Runs -> HostRecord]
      /\ \A q \in Runs : host'[q].program = host[q].program
      /\ \A q \in Runs : host'[q].stage = IF q = r THEN "sent" ELSE host[q].stage
  BY <1>1 DEF HostRecord, HostStages
<1>4. HostType'
  BY <1>1, <1>2, <1>3 DEF HostInv, HostType, HostRecord
<1>5. RunsCallWhatTheyDeployed'
  BY <1>1, <1>3 DEF HostInv, RunsCallWhatTheyDeployed
<1>6. WholeBinariesAreSent' /\ SeenIsCommitted' /\ CommittedIsDeployed'
  BY <1>1, <1>2, <1>3
  DEF HostInv, WholeBinariesAreSent, SeenIsCommitted, CommittedIsDeployed
<1> QED BY <1>4, <1>5, <1>6 DEF HostInv

LEMMA WriteManifestKeeps ==
    ASSUME HostInv, NEW r \in Runs, WriteManifest(r) PROVE HostInv'
<1>1. host[r].stage = "seen" /\ host' = [host EXCEPT ![r].stage = "done"]
      /\ manifest' = [program |-> host[r].program] /\ UNCHANGED <<pool, programs, account>>
      /\ host \in [Runs -> HostRecord]
  BY DEF WriteManifest, Manifest, Goto, chainVars, HostInv, HostType, HostRecord
<1>2. /\ host' \in [Runs -> HostRecord]
      /\ \A q \in Runs : host'[q].program = host[q].program
      /\ \A q \in Runs : host'[q].stage = IF q = r THEN "done" ELSE host[q].stage
  BY <1>1 DEF HostRecord, HostStages, Ended
<1>3. host[r].program \in ProgramIds /\ host[r].program.tree = AIRDROP_BINARY
      /\ account[host[r].program] # None
  BY <1>1 DEF HostInv, HostType, SeenIsCommitted
<1>4. HostType'
  BY <1>1, <1>2, <1>3 DEF HostInv, HostType, HostRecord
<1>5. RunsCallWhatTheyDeployed' /\ SeenIsCommitted'
  BY <1>1, <1>2, <1>3 DEF HostInv, RunsCallWhatTheyDeployed, SeenIsCommitted
<1> QED BY <1>1, <1>4, <1>5 DEF HostInv, WholeBinariesAreSent, CommittedIsDeployed

LEMMA HostStopsKeeps ==
    ASSUME HostInv, NEW r \in Runs, HostStops(r) PROVE HostInv'
<1>1. Goto(r, host[r].stage, "dead") /\ UNCHANGED <<manifest, pool, chainVars>>
  BY DEF HostStops, Goto
<1>2. host[r].stage \in HostStages
  BY DEF HostInv, HostType
<1> QED BY <1>1, <1>2, GotoKeeps DEF HostStages, Ended

\* The steps that only move a run on, each with what it has found out.
LEMMA WaitsKeep ==
    ASSUME HostInv, NEW r \in Runs, AlreadyDeployed(r) \/ NotDeployed(r) \/ SeeData(r)
    PROVE  HostInv'
<1>1. CASE AlreadyDeployed(r)
  <2>1. Goto(r, "loaded", "deployed") /\ UNCHANGED <<manifest, pool, chainVars>>
        /\ host[r].stage = "loaded" /\ account[host[r].program] # None
    BY <1>1 DEF AlreadyDeployed, Goto
  <2>2. Provided(r)
    BY <2>1 DEF HostInv, HostType, CommittedIsDeployed, Provided
  <2> QED BY <2>1, <2>2, GotoKeeps DEF HostStages
<1>2. CASE NotDeployed(r)
  <2>1. Goto(r, "loaded", "deploying") /\ UNCHANGED <<manifest, pool, chainVars>>
    BY <1>2 DEF NotDeployed
  <2> QED BY <2>1, GotoKeeps DEF HostStages
<1>3. CASE SeeData(r)
  <2>1. Goto(r, "sent", "seen") /\ UNCHANGED <<manifest, pool, chainVars>>
        /\ host[r].stage = "sent" /\ account[host[r].program] # None
    BY <1>3 DEF SeeData, Goto
  <2>2. Provided(r)
    BY <2>1 DEF HostInv, RunsCallWhatTheyDeployed, Provided
  <2> QED BY <2>1, <2>2, GotoKeeps DEF HostStages
<1> QED BY <1>1, <1>2, <1>3

LEMMA ExecuteDeployKeeps ==
    ASSUME HostInv, NEW tx \in pool, ExecuteDeploy(tx) PROVE HostInv'
<1>1. tx.kind = "deploy" /\ pool' = pool \ {tx} /\ programs' = programs \cup {ProgramId(tx.bytecode)}
      /\ UNCHANGED <<host, manifest, account>>
  BY DEF ExecuteDeploy, hostVars
<1>2. ProgramId(tx.bytecode) \in ProgramIds
  <2>1. tx.bytecode \in Bytes
    BY <1>1 DEF HostInv, HostType, Txs
  <2> QED BY <2>1, BytesFacts
<1>3. HostType'
  BY <1>1, <1>2 DEF HostInv, HostType
<1>4. RunsCallWhatTheyDeployed'
  BY <1>1 DEF HostInv, RunsCallWhatTheyDeployed
<1> QED
  BY <1>1, <1>3, <1>4
  DEF HostInv, WholeBinariesAreSent, CommittedIsDeployed, SeenIsCommitted

LEMMA ExecuteInitializeKeeps ==
    ASSUME HostInv, NEW tx \in pool, ExecuteInitialize(tx) PROVE HostInv'
<1>1. tx.kind = "initialize" /\ pool' = pool \ {tx} /\ UNCHANGED <<host, manifest, programs>>
      /\ account' = IF tx.program \in programs /\ account[tx.program] = None
                    THEN [account EXCEPT ![tx.program] = tx.by] ELSE account
  BY DEF ExecuteInitialize, hostVars
<1>2. tx.program \in ProgramIds /\ tx.by \in Runs /\ tx.by # None
  BY <1>1, NoneIsNothing DEF HostInv, HostType, Txs
<1>3. /\ account' \in [ProgramIds -> Runs \cup {None}]
      /\ \A p \in ProgramIds : account[p] # None => account'[p] # None
      /\ \A p \in ProgramIds : account'[p] # None => account[p] # None \/ p \in programs
  BY <1>1, <1>2 DEF HostInv, HostType
<1>4. HostType'
  BY <1>1, <1>3 DEF HostInv, HostType
<1>5. RunsCallWhatTheyDeployed' /\ WholeBinariesAreSent'
  BY <1>1 DEF HostInv, RunsCallWhatTheyDeployed, WholeBinariesAreSent
<1>6. CommittedIsDeployed'
  BY <1>1, <1>3 DEF HostInv, CommittedIsDeployed
<1>7. SeenIsCommitted'
  BY <1>1, <1>3 DEF HostInv, HostType, SeenIsCommitted
<1> QED BY <1>4, <1>5, <1>6, <1>7 DEF HostInv

-----------------------------------------------------------------------------

LEMMA Initially == Init => IInv
<1> SUFFICES ASSUME Init PROVE IInv
  OBVIOUS
<1>1. FileInv
  BY ArtifactBounds, NoneIsNothing
  DEF Init, FileInv, FileType, InMemory, LocalTree, InItsTree, BuildStages, Idle, Whole
<1>2. HostInv
  BY NoneIsNothing
  DEF Init, HostInv, HostType, HostStages, WholeBinariesAreSent, RunsCallWhatTheyDeployed,
      CommittedIsDeployed, SeenIsCommitted
<1> QED BY <1>1, <1>2 DEF IInv

LEMMA StepsKeep == IInv /\ [Next]_vars => IInv'
<1> SUFFICES ASSUME FileInv, HostInv, [Next]_vars PROVE FileInv' /\ HostInv'
  BY DEF IInv
<1>1. CASE Edit \/ Emit \/ BuildStep \/ BuildStops \/ DockerBegins \/ DockerEnds
  <2>1. UNCHANGED <<hostVars, pool, chainVars>>
    BY <1>1 DEF Edit, Emit, BuildStep, EndEmit, locate_llvm_strip, Unpack, Pack, EndPack,
                BuildStops, DockerBegins, DockerEnds
  <2> QED BY <1>1, <2>1, FileSteps, HostStutter
<1>2. CASE \E r \in Runs : load_program(r) \/ HostStep(r) \/ HostStops(r)
  <2>1. PICK r \in Runs : load_program(r) \/ HostStep(r) \/ HostStops(r)
    BY <1>2
  <2>2. UNCHANGED fileVars
    BY <2>1 DEF load_program, HostStep, AlreadyDeployed, NotDeployed, ensure_program_deployed,
                SendInitialize, SeeData, WriteManifest, HostStops
  <2> QED
    BY <2>1, <2>2, FileSteps, LoadKeeps, EnsureKeeps, SendInitializeKeeps, WriteManifestKeeps,
       WaitsKeep, HostStopsKeeps DEF HostStep
<1>3. CASE \E tx \in pool : ExecuteDeploy(tx) \/ ExecuteInitialize(tx)
  <2>1. PICK tx \in pool : ExecuteDeploy(tx) \/ ExecuteInitialize(tx)
    BY <1>3
  <2>2. UNCHANGED fileVars
    BY <2>1 DEF ExecuteDeploy, ExecuteInitialize
  <2> QED BY <2>1, <2>2, FileSteps, ExecuteDeployKeeps, ExecuteInitializeKeeps
<1>4. CASE UNCHANGED vars
  BY <1>4, FileSteps, HostStutter DEF vars
<1> QED BY <1>1, <1>2, <1>3, <1>4 DEF Next

\* The inductive invariant: whatever builds, runs and the chain do, and wherever
\* they stop.
THEOREM ArtifactInvariance == Spec => []IInv
BY Initially, StepsKeep, PTL DEF Spec

\* The state keeps its shape.
THEOREM TypeCorrect == Spec => []TypeOK
<1>1. IInv => TypeOK
  BY TypeParts DEF IInv, FileInv, HostInv
<1> QED BY <1>1, ArtifactInvariance, PTL

\* A run of airdrop_deploy addresses the program that it has deployed.
THEOREM CallsWhatItDeployed == Spec => []RunsCallWhatTheyDeployed
<1>1. IInv => RunsCallWhatTheyDeployed
  BY DEF IInv, HostInv
<1> QED BY <1>1, ArtifactInvariance, PTL

\* The manifest names a program that is on the chain, with a distribution.
THEOREM ManifestProgramIsDeployed == Spec => []ManifestNamesADeployedProgram
<1>1. IInv => ManifestNamesADeployedProgram
  BY DEF IInv, HostInv, HostType, SeenIsCommitted, CommittedIsDeployed,
         ManifestNamesADeployedProgram
<1> QED BY <1>1, ArtifactInvariance, PTL

\* A build of the deployed source that succeeds leaves an artifact by which the
\* distribution is found again.
THEOREM RebuildsAgree == Spec => []RebuildsFindTheDistribution
<1>1. ASSUME IInv, build.stage = "done", manifest # None, manifest.program.stripped,
             artifact[AIRDROP_BINARY].source = manifest.program.source
      PROVE  Parses(artifact[AIRDROP_BINARY]) /\ account[ProgramId(artifact[AIRDROP_BINARY])] # None
  <2> DEFINE bytes == artifact["local"]
  <2>1. bytes \in Bytes /\ bytes.stripped /\ bytes.tree = "local" /\ Parses(bytes)
    BY <1>1 DEF IInv, FileInv, LocalTree, InItsTree, Whole, Trees, Parses
  <2>2. manifest.program \in ProgramIds /\ manifest.program.tree = "local"
        /\ account[manifest.program] # None
    BY <1>1 DEF IInv, HostInv, HostType, SeenIsCommitted, AIRDROP_BINARY
  <2>3. ProgramId(bytes) = manifest.program
    BY <1>1, <2>1, <2>2 DEF ProgramId, ProgramIds, Bytes, AIRDROP_BINARY
  <2> QED BY <2>1, <2>2, <2>3 DEF AIRDROP_BINARY
<1>2. IInv => RebuildsFindTheDistribution
  BY <1>1 DEF RebuildsFindTheDistribution
<1> QED BY <1>2, ArtifactInvariance, PTL
=============================================================================
