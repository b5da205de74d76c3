----------------------------- MODULE Certificates -----------------------------
(***************************************************************************)
(* `certificate generate`: four files that belong together, removed and    *)
(* written again one after the other.  An error ends the command in any    *)
(* step and so does a crash; what is on disk then stays there.             *)
(***************************************************************************)
EXTENDS Naturals

CONSTANT MaxGeneration  \* bound: how often keys are drawn

ASSUME CertificatesAssumption == MaxGeneration \in Nat

Files == <<"ca.crt", "ca.key", "client.crt", "client.key">>
Names == {Files[i] : i \in 1..4}

VARIABLES
  disk,       \* per file: the generation of what it holds, 0 if there is none
  cut,        \* the files that have not been written to their end
  generation, \* of the keys that GenerateCertificate has drawn
  phase,      \* GenerateCertificate: "idle", "remove", "draw", "create", "encode",
              \* and "done" when it has answered with the paths
  place       \* which of the files it is at

certVars == <<disk, cut, generation, phase, place>>

FileExists(f) == disk[f] # 0

Intact(f) == FileExists(f) /\ f \notin cut

Generating == phase \in {"remove", "draw", "create", "encode"}

CertInit ==
  /\ disk = [f \in Names |-> 0] /\ cut = {}
  /\ generation = 0 /\ phase = "idle" /\ place = 1

\* Variant: the files are overwritten, not removed first.
GenerateOver ==
  /\ ~ Generating
  /\ \/ /\ generation < MaxGeneration
        /\ generation' = generation + 1
        /\ phase' = "draw" /\ place' = 1
     \/ /\ \A f \in Names : FileExists(f)
        /\ phase' = "done"
        /\ UNCHANGED <<generation, place>>
  /\ UNCHANGED <<disk, cut>>

\* Run: with the four files there, nothing is generated unless -cert-override
\* is given.  The first keys are drawn before anything is removed.
Generate ==
  /\ ~ Generating
  /\ \/ /\ generation < MaxGeneration
        /\ generation' = generation + 1
        /\ phase' = "remove" /\ place' = 1
     \/ /\ \A f \in Names : FileExists(f)
        /\ phase' = "done"
        /\ UNCHANGED <<generation, place>>
  /\ UNCHANGED <<disk, cut>>

\* os.RemoveAll of one file after the other.
Remove ==
  /\ phase = "remove"
  /\ disk' = [disk EXCEPT ![Files[place]] = 0]
  /\ cut' = cut \ {Files[place]}
  /\ IF place = 4 THEN phase' = "draw" /\ place' = 1
                  ELSE place' = place + 1 /\ UNCHANGED phase
  /\ UNCHANGED generation

\* The key of the client and the two certificates, in memory.
Draw ==
  /\ phase = "draw"
  /\ phase' = "create"
  /\ UNCHANGED <<disk, cut, generation, place>>

Create ==
  /\ phase = "create"
  /\ disk' = [disk EXCEPT ![Files[place]] = generation]
  /\ cut' = cut \cup {Files[place]}
  /\ phase' = "encode"
  /\ UNCHANGED <<generation, place>>

\* Variant: the key of the CA is the last file that is written.
EncodeKeyLast ==
  /\ phase = "encode"
  /\ cut' = cut \ {Files[place]}
  /\ LET next == <<3, 0, 4, 2>>[place] IN
       IF next = 0 THEN phase' = "done" /\ place' = 1
                   ELSE phase' = "create" /\ place' = next
  /\ UNCHANGED <<disk, generation>>

Encode ==
  /\ phase = "encode"
  /\ cut' = cut \ {Files[place]}
  /\ IF place = 4 THEN phase' = "done" /\ place' = 1
                  ELSE phase' = "create" /\ place' = place + 1
  /\ UNCHANGED <<disk, generation>>

\* An early return of GenerateCertificate, or a crash.
Abandon ==
  /\ Generating
  /\ phase' = "idle" /\ place' = 1
  /\ UNCHANGED <<disk, cut, generation>>

CertNext == Generate \/ Remove \/ Draw \/ Create \/ Encode \/ Abandon
------------------------------------------------------------------------------
CertTypeOK ==
  /\ disk \in [Names -> 0..MaxGeneration] /\ cut \subseteq Names
  /\ generation \in 0..MaxGeneration
  /\ phase \in {"idle", "remove", "draw", "create", "encode", "done"}
  /\ place \in 1..4

\* Once `certificate generate` has answered with the paths, the server finds a
\* certificate and a key that fit, and the client a certificate that the server
\* accepts, whatever an earlier run has left behind.  The key of the client is
\* left out: as the last file it may have been cut off by a crash.
PathsUsable ==
  phase = "done" => \A i \in 1..3 : /\ Intact(Files[i])
                                    /\ disk[Files[i]] = disk["ca.crt"]
==============================================================================
