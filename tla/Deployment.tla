------------------------------ MODULE Deployment ------------------------------
(***************************************************************************)
(* What install.sh sets up and the user may take down again, and the       *)
(* service that reads it: one shell, in which `certificate generate`,      *)
(* `service install` and `service uninstall` run one at a time, and the    *)
(* service manager, which starts the service in full mode.  There each of  *)
(* the two servers reads the configuration and the certificates for        *)
(* itself, the REST server first.                                          *)
(***************************************************************************)
EXTENDS Certificates, Installation

Servers == {"rest", "grpc"}

VARIABLES
  step,       \* the service: "off", what it does next, or "up"
  server,     \* the server that it is setting up
  used,       \* per server: the value of the option that it uses
  pair, pool, \* per server: the generations of its certificate and of its CA
  touched     \* history: of "certificates" and "configuration", what has been
              \* changed since the service was started

serviceVars == <<step, server, used, pair, pool, touched>>
vars == <<certVars, installVars, serviceVars>>

Init ==
  /\ CertInit /\ InstallInit
  /\ step = "off" /\ server = "rest"
  /\ used = [s \in Servers |-> "none"]
  /\ pair = [s \in Servers |-> 0] /\ pool = [s \in Servers |-> 0]
  /\ touched = {}

(***************************************************************************)
(* The shell.                                                              *)
(***************************************************************************)
CertStep ==
  /\ ~ Busy /\ CertNext
  /\ touched' = IF step # "off" /\ <<disk, cut>>' # <<disk, cut>>
                THEN touched \cup {"certificates"} ELSE touched
  /\ UNCHANGED <<installVars, step, server, used, pair, pool>>

InstallStep ==
  /\ ~ Generating /\ InstallNext
  /\ touched' = IF step # "off" /\ <<config, decided>>' # <<config, decided>>
                THEN touched \cup {"configuration"} ELSE touched
  /\ UNCHANGED <<certVars, step, server, used, pair, pool>>

(***************************************************************************)
(* The service.                                                            *)
(***************************************************************************)

\* launchd starts a job that is loaded, at once, at a login and when it has
\* failed; systemd starts a unit when it is told to, by install or by the user.
Launch ==
  /\ step = "off" /\ unit = "whole" /\ (platform = "linux" \/ managed = "yes")
  /\ step' = "read"
  /\ UNCHANGED <<certVars, installVars, server, used, pair, pool, touched>>

\* The process ends: an error of the start, a crash, a stop.
Exit ==
  /\ step # "off"
  /\ step' = "off" /\ server' = "rest"
  /\ used' = [s \in Servers |-> "none"]
  /\ pair' = [s \in Servers |-> 0] /\ pool' = [s \in Servers |-> 0]
  /\ touched' = {}
  /\ UNCHANGED <<certVars, installVars>>

\* loadConfigFile; a file that has been cut off is refused, or lacks the option.
LoadConfig ==
  /\ step = "read" /\ config # "none"
  /\ used' = [used EXCEPT ![server] =
                Served(option, IF config = "cut" THEN Absent ELSE config)]
  /\ step' = "certificate"
  /\ UNCHANGED <<certVars, installVars, server, pair, pool, touched>>

\* tls.LoadX509KeyPair reads the certificate, then the key, and compares them.
LoadCertificate ==
  /\ step = "certificate" /\ Intact("ca.crt")
  /\ pair' = [pair EXCEPT ![server] = disk["ca.crt"]]
  /\ step' = "key"
  /\ UNCHANGED <<certVars, installVars, server, used, pool, touched>>

LoadKey ==
  /\ step = "key" /\ Intact("ca.key") /\ disk["ca.key"] = pair[server]
  /\ step' = "pool"
  /\ UNCHANGED <<certVars, installVars, server, used, pair, pool, touched>>

\* The certificate is read again, as the CA of the clients.
LoadPool ==
  /\ step = "pool" /\ Intact("ca.crt")
  /\ pool' = [pool EXCEPT ![server] = disk["ca.crt"]]
  /\ IF server = "rest" THEN step' = "read" /\ server' = "grpc"
                        ELSE step' = "up" /\ UNCHANGED server
  /\ UNCHANGED <<certVars, installVars, used, pair, touched>>

Next ==
  \/ CertStep \/ InstallStep
  \/ Launch \/ Exit \/ LoadConfig \/ LoadCertificate \/ LoadKey \/ LoadPool

Spec == Init /\ [][Next]_vars
------------------------------------------------------------------------------
(***************************************************************************)
(* Properties.                                                             *)
(***************************************************************************)

\* Every variable has its type.
TypeOK ==
  /\ CertTypeOK /\ InstallTypeOK
  /\ step \in {"off", "read", "certificate", "key", "pool", "up"}
  /\ server \in Servers
  /\ used \in [Servers -> {"none"} \cup Values]
  /\ pair \in [Servers -> 0..MaxGeneration] /\ pool \in [Servers -> 0..MaxGeneration]
  /\ touched \subseteq {"certificates", "configuration"}

Serving == {s \in Servers : pool[s] # 0}

\* A client that uses the files on disk is accepted by each server, and accepts
\* it, unless they have been touched since the service was started: whatever
\* runs of `certificate generate` were cut short before, a start finds files of
\* one generation or fails.
ClientsAccepted ==
  "certificates" \notin touched /\ Intact("client.crt")
    => \A s \in Serving : /\ pool[s] = disk["client.crt"]
                          /\ pair[s] = disk["ca.crt"]

\* Both servers use what the last install that wrote the configuration decided
\* on, be it from a flag, a variable or a file, through the file that it kept.
\* A zero is not kept: the servers use the default of the option for it.
ConfigurationKept ==
  "configuration" \notin touched /\ config \notin {"none", "cut"} /\ decided # Zero
    => \A s \in Servers : used[s] \in {"none", decided}
==============================================================================
