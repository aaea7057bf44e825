---------------------------- MODULE GuestArtifact ----------------------------
(***************************************************************************)
(* The guest's bytecode on its way to the chain.  methods/build.rs emits   *)
(* it and strips it in place, in two build trees; a run of airdrop_deploy  *)
(* reads it to learn the program's id, and so the address of the           *)
(* distribution, and reads it again to deploy it; later programs read it   *)
(* once more to find the distribution.  The source is edited, builds and   *)
(* runs overlap and die, and a file that is being written shows any prefix *)
(* of its contents.                                                        *)
(*                                                                         *)
(* Deployment has the other side of these runs: it takes the program as    *)
(* given and follows the terms of the distribution.                        *)
(***************************************************************************)
EXTENDS Naturals, Sequences

CONSTANTS
    MaxSource,      \* bound on the versions of the guest's source
    MaxRuns,        \* bound on the runs of airdrop_deploy
    None            \* no file, no manifest, nothing committed

ASSUME ArtifactBounds == MaxSource \in Nat \ {0} /\ MaxRuns \in Nat

Runs == 1 .. MaxRuns

\* bin_dirs, in the order in which build.rs goes through them.
bin_dirs == <<"local", "docker">>
Trees == {"local", "docker"}

\* AIRDROP_BINARY.
AIRDROP_BINARY == "local"

VARIABLES
    source,         \* the version of the guest's source
    artifact,       \* artifact[t]: airdrop.bin in tree t, or None
    build,          \* the run of the build script
    docker,         \* what a docker build is writing, or None
    host,           \* host[r]: the r-th run of airdrop_deploy
    manifest,       \* the manifest file, or None
    pool,           \* transactions sent and not yet executed
    programs,       \* ids of the programs on the chain
    account         \* account[p]: the run that committed the distribution of
                    \* program p, or None

fileVars == <<source, artifact, build, docker>>
hostVars == <<host, manifest>>
chainVars == <<programs, account>>
vars == <<fileVars, hostVars, pool, chainVars>>

-----------------------------------------------------------------------------
(* Bytecode.  The container holds a header, the user ELF and the kernel    *)
(* ELF, in this order; cut says where a prefix of it ends.                 *)

Cuts == {"user", "kernel"}

Bytes == [tree : Trees, source : 1 .. MaxSource, stripped : BOOLEAN,
          cut : Cuts \cup {"none"}]

ASSUME NoneIsNothing == None \notin Runs /\ None \notin Bytes

Built(tree, version) ==
    [tree |-> tree, source |-> version, stripped |-> FALSE, cut |-> "none"]

Prefix(bytes, cut) == [bytes EXCEPT !.cut = cut]

\* Program::new refuses what is not a whole container.
Parses(bytes) == bytes # None /\ bytes.cut = "none"

\* The image id: stripping moves it, and so does the build environment.
ProgramId(bytes) ==
    [tree |-> bytes.tree, source |-> bytes.source, stripped |-> bytes.stripped]

ProgramIds == [tree : Trees, source : 1 .. MaxSource, stripped : BOOLEAN]

-----------------------------------------------------------------------------
(* cargo build in methods/ *)

Idle == {"off", "done"}

Edit ==
    /\ source < MaxSource
    /\ source' = source + 1
    /\ UNCHANGED <<artifact, build, docker, hostVars, pool, chainVars>>

\* A write replaces the file by a prefix of what it writes, then by all of it.
BeginWrite(tree, bytes) ==
    \E cut \in Cuts : artifact' = [artifact EXCEPT ![tree] = Prefix(bytes, cut)]

EndWrite(tree, bytes) == artifact' = [artifact EXCEPT ![tree] = bytes]

\* embed_methods_with_options compiles the guest and writes the local artifact.
Emit ==
    LET bytes == Built("local", source) IN
    /\ build.stage \in Idle
    /\ build' = [stage |-> "emitting", dir |-> 1, bytes |-> bytes]
    /\ BeginWrite("local", bytes)
    /\ UNCHANGED <<source, docker, hostVars, pool, chainVars>>

EndEmit ==
    /\ build.stage = "emitting"
    /\ EndWrite("local", build.bytes)
    /\ build' = [build EXCEPT !.stage = "emitted"]
    /\ UNCHANGED <<source, docker, hostVars, pool, chainVars>>

\* Mutant: without llvm-strip the build goes on.
locate_llvm_strip_or_skip ==
    /\ build.stage = "emitted"
    /\ \E found \in BOOLEAN : build' = [build EXCEPT !.stage = IF found THEN "strip" ELSE "done"]
    /\ UNCHANGED <<source, artifact, docker, hostVars, pool, chainVars>>

\* Without llvm-strip the script panics here, after the artifact was written.
locate_llvm_strip ==
    /\ build.stage = "emitted"
    /\ \E found \in BOOLEAN : build' = [build EXCEPT !.stage = IF found THEN "strip" ELSE "off"]
    /\ UNCHANGED <<source, artifact, docker, hostVars, pool, chainVars>>

AfterDir(b) ==
    IF b.dir = Len(bin_dirs) THEN [b EXCEPT !.stage = "done"]
    ELSE [b EXCEPT !.stage = "strip", !.dir = b.dir + 1]

\* Reads and unpacks the container and strips the user ELF in a file of its own.
\* The assertions and slices fail on what ends within the user ELF; what is left
\* of the kernel is taken for the kernel.
Unpack ==
    LET blob == artifact[bin_dirs[build.dir]] IN
    /\ build.stage = "strip"
    /\ build' = IF blob = None THEN AfterDir(build)
                ELSE IF blob.cut = "user" THEN [build EXCEPT !.stage = "off"]
                ELSE [build EXCEPT !.stage = "pack", !.bytes = [blob EXCEPT !.stripped = TRUE]]
    /\ UNCHANGED <<source, artifact, docker, hostVars, pool, chainVars>>

Pack ==
    /\ build.stage = "pack"
    /\ build' = [build EXCEPT !.stage = "writing"]
    /\ BeginWrite(bin_dirs[build.dir], build.bytes)
    /\ UNCHANGED <<source, docker, hostVars, pool, chainVars>>

EndPack ==
    /\ build.stage = "writing"
    /\ EndWrite(bin_dirs[build.dir], build.bytes)
    /\ build' = AfterDir(build)
    /\ UNCHANGED <<source, docker, hostVars, pool, chainVars>>

\* Killed, or a command failed: the file stays as it is.
BuildStops ==
    /\ build.stage \notin Idle
    /\ build' = [build EXCEPT !.stage = "off"]
    /\ UNCHANGED <<source, artifact, docker, hostVars, pool, chainVars>>

\* cargo risczero build writes the other tree, whenever somebody starts it.
DockerBegins ==
    /\ docker = None
    /\ docker' = Built("docker", source)
    /\ BeginWrite("docker", Built("docker", source))
    /\ UNCHANGED <<source, build, hostVars, pool, chainVars>>

DockerEnds ==
    /\ docker # None
    /\ \/ EndWrite("docker", docker)
       \/ UNCHANGED artifact
    /\ docker' = None
    /\ UNCHANGED <<source, build, hostVars, pool, chainVars>>

-----------------------------------------------------------------------------
(* airdrop_deploy, as far as the program is concerned *)

Ended == {"done", "dead"}

Goto(r, from, to) ==
    /\ host[r].stage = from
    /\ host' = [host EXCEPT ![r].stage = to]

DeployTx(bytes) == [kind |-> "deploy", bytecode |-> bytes]
InitializeTx(r) == [kind |-> "initialize", program |-> host[r].program, by |-> r]

\* Mutant: a run that cannot load the program goes on without one.
load_program_or_none(r) ==
    LET bytes == artifact[AIRDROP_BINARY] IN
    /\ \A q \in Runs : q < r => host[q].stage \in Ended
    /\ host[r].stage = "off"
    /\ host' = [host EXCEPT ![r] =
           [stage |-> "loaded", program |-> IF Parses(bytes) THEN ProgramId(bytes) ELSE None]]
    /\ UNCHANGED <<fileVars, manifest, pool, chainVars>>

\* One terminal: a run starts when the last one has ended.
load_program(r) ==
    LET bytes == artifact[AIRDROP_BINARY] IN
    /\ \A q \in Runs : q < r => host[q].stage \in Ended
    /\ host[r].stage = "off"
    /\ host' = [host EXCEPT ![r] =
           IF Parses(bytes) THEN [stage |-> "loaded", program |-> ProgramId(bytes)]
                            ELSE [stage |-> "dead", program |-> None]]
    /\ UNCHANGED <<fileVars, manifest, pool, chainVars>>

\* The owner of the distribution account is the program, once it is committed.
AlreadyDeployed(r) ==
    /\ Goto(r, "loaded", "deployed")
    /\ account[host[r].program] # None
    /\ UNCHANGED <<fileVars, manifest, pool, chainVars>>

\* Also when the request fails.
NotDeployed(r) ==
    /\ Goto(r, "loaded", "deploying")
    /\ UNCHANGED <<fileVars, manifest, pool, chainVars>>

\* Mutant: the id of what is read again is not compared.
DeployableUncompared(bytes, program) == Parses(bytes)

Deployable(bytes, program) == Parses(bytes) /\ ProgramId(bytes) = program

\* Reads the file again, and panics when it is not the program any more.
ensure_program_deployed(r) ==
    LET bytes == artifact[AIRDROP_BINARY] IN
    /\ host[r].stage = "deploying"
    /\ IF Deployable(bytes, host[r].program)
       THEN Goto(r, "deploying", "deployed") /\ pool' = pool \cup {DeployTx(bytes)}
       ELSE Goto(r, "deploying", "dead") /\ UNCHANGED pool
    /\ UNCHANGED <<fileVars, manifest, chainVars>>

SendInitialize(r) ==
    /\ Goto(r, "deployed", "sent")
    /\ pool' = pool \cup {InitializeTx(r)}
    /\ UNCHANGED <<fileVars, manifest, chainVars>>

SeeData(r) ==
    /\ Goto(r, "sent", "seen")
    /\ account[host[r].program] # None
    /\ UNCHANGED <<fileVars, manifest, pool, chainVars>>

\* Mutant: the program's id is that of the artifact as it is now.
ManifestOfNow(r) ==
    [program |-> IF Parses(artifact[AIRDROP_BINARY]) THEN ProgramId(artifact[AIRDROP_BINARY])
                 ELSE host[r].program]

\* Its address and its id of the program: the distribution is that of both.
Manifest(r) == [program |-> host[r].program]

WriteManifest(r) ==
    /\ Goto(r, "seen", "done")
    /\ manifest' = Manifest(r)
    /\ UNCHANGED <<fileVars, pool, chainVars>>

\* The wait runs out, the transaction is refused when it is sent (it is too large
\* unless stripped), or the process is killed.
HostStops(r) ==
    /\ host[r].stage \notin {"off"} \cup Ended
    /\ host' = [host EXCEPT ![r].stage = "dead"]
    /\ UNCHANGED <<fileVars, manifest, pool, chainVars>>

-----------------------------------------------------------------------------
(* The chain; see Deployment *)

ExecuteDeploy(tx) ==
    /\ tx.kind = "deploy"
    /\ pool' = pool \ {tx}
    /\ programs' = programs \cup {ProgramId(tx.bytecode)}
    /\ UNCHANGED <<fileVars, hostVars, account>>

\* Refused if the program is not there or the distribution is.
ExecuteInitialize(tx) ==
    /\ tx.kind = "initialize"
    /\ pool' = pool \ {tx}
    /\ account' = IF tx.program \in programs /\ account[tx.program] = None
                  THEN [account EXCEPT ![tx.program] = tx.by]
                  ELSE account
    /\ UNCHANGED <<fileVars, hostVars, programs>>

-----------------------------------------------------------------------------

Init ==
    /\ source = 1
    /\ artifact = [t \in Trees |-> None]
    /\ build = [stage |-> "off", dir |-> 1, bytes |-> None]
    /\ docker = None
    /\ host = [r \in Runs |-> [stage |-> "off", program |-> None]]
    /\ manifest = None
    /\ pool = {}
    /\ programs = {}
    /\ account = [p \in ProgramIds |-> None]

BuildStep == EndEmit \/ locate_llvm_strip \/ Unpack \/ Pack \/ EndPack

HostStep(r) ==
    AlreadyDeployed(r) \/ NotDeployed(r) \/ ensure_program_deployed(r)
    \/ SendInitialize(r) \/ SeeData(r) \/ WriteManifest(r)

Next ==
    \/ Edit \/ Emit \/ BuildStep \/ BuildStops \/ DockerBegins \/ DockerEnds
    \/ \E r \in Runs : load_program(r) \/ HostStep(r) \/ HostStops(r)
    \/ \E tx \in pool : ExecuteDeploy(tx) \/ ExecuteInitialize(tx)

Spec == Init /\ [][Next]_vars

-----------------------------------------------------------------------------
(* Properties *)

BuildStages == Idle \cup {"emitting", "emitted", "strip", "pack", "writing"}

HostStages == {"off", "loaded", "deploying", "deployed", "sent", "seen"} \cup Ended

Txs == [kind : {"deploy"}, bytecode : Bytes]
       \cup [kind : {"initialize"}, program : ProgramIds, by : Runs]

\* The shape of the state; a run that got past load_program has a program, which is
\* one of the tree that the host reads.
TypeOK ==
    /\ source \in 1 .. MaxSource
    /\ artifact \in [Trees -> Bytes \cup {None}]
    /\ build \in [stage : BuildStages, dir : DOMAIN bin_dirs, bytes : Bytes \cup {None}]
    /\ docker \in Bytes \cup {None}
    /\ host \in [Runs -> [stage : HostStages, program : ProgramIds \cup {None}]]
    /\ \A r \in Runs : host[r].stage \notin {"off", "dead"} =>
         host[r].program \in {p \in ProgramIds : p.tree = AIRDROP_BINARY}
    /\ manifest \in [program : ProgramIds] \cup {None}
    /\ pool \subseteq Txs
    /\ programs \subseteq ProgramIds
    /\ account \in [ProgramIds -> Runs \cup {None}]

\* A run addresses the program that it has deployed, although it read the file
\* twice and a build may have replaced it in between.
RunsCallWhatTheyDeployed ==
    \A r \in Runs : host[r].stage \in {"deployed", "sent", "seen", "done"} =>
        \/ host[r].program \in programs
        \/ \E tx \in pool : tx.kind = "deploy" /\ ProgramId(tx.bytecode) = host[r].program

\* The program that the manifest names is on the chain and has a distribution,
\* whatever happened to the artifact since it was loaded.
ManifestNamesADeployedProgram ==
    manifest # None => manifest.program \in programs /\ account[manifest.program] # None

\* Builds are repeatable: when a distribution belongs to the stripped binary of
\* some source, every build of that source that succeeds leaves an artifact by
\* which airdrop_status and airdrop_claim find it again.  Any number of builds
\* may have died in between.
RebuildsFindTheDistribution ==
    build.stage = "done" /\ manifest # None /\ manifest.program.stripped
        /\ artifact[AIRDROP_BINARY].source = manifest.program.source
        => /\ Parses(artifact[AIRDROP_BINARY])
           /\ account[ProgramId(artifact[AIRDROP_BINARY])] # None
=============================================================================
