------------------------------ MODULE Sniffer ------------------------------
(***************************************************************************)
(* The packet sniffer (ioppytest/packet_sniffer/__main__.py): a service    *)
(* that handles one request at a time, and the subprocess it launches to   *)
(* dump the packets of the agents into the file of a capture.              *)
(*                                                                         *)
(* The subprocess (packet_dumper, of a library) listens to the bus on its  *)
(* own: it opens its file, recording what it hears, until it hears a       *)
(* MsgSniffingStop itself.  The service only looks whether it is gone.     *)
(***************************************************************************)
CONSTANTS Captures,  \* ids of captures
          Packets    \* what a packet is labelled with

VARIABLES
  dumper,  \* phase of pcap_dumper_subprocess, "none" for None
  target,  \* the capture it records, as a set: empty for None
  files,   \* files[c]: the file <c>.pcap
  reply    \* ok of the last reply

snifferVars == <<dumper, target, files, reply>>

\* starting: launched, not yet listening; leaving: heard the stop, still alive;
\* gone: exited, but the service has not noticed.
Phases == {"none", "starting", "running", "leaving", "gone"}

SnifferTypeOK ==
  /\ dumper \in Phases
  /\ target \in SUBSET Captures
  /\ files \in [Captures -> [exists : BOOLEAN, packets : SUBSET Packets]]
  /\ reply \in BOOLEAN

SnifferInit ==
  /\ dumper = "none"
  /\ target = {}
  /\ files = [c \in Captures |-> [exists |-> FALSE, packets |-> {}]]
  /\ reply = TRUE

\* A mutant: a sniffer that is already running answers that all is well.
StartAlwaysOk(c) ==
  /\ IF dumper = "none" THEN dumper' = "starting" /\ target' = {c}
                        ELSE UNCHANGED <<dumper, target>>
  /\ reply' = TRUE
  /\ UNCHANGED files

\* MsgSniffingStart: refused as long as the service holds a subprocess.
Start(c) ==
  /\ IF dumper = "none" THEN dumper' = "starting" /\ target' = {c}
                        ELSE UNCHANGED <<dumper, target>>
  /\ reply' = (dumper = "none")
  /\ UNCHANGED files

\* A mutant: the answer says stopped without looking.
StopAlwaysOk ==
  /\ reply' = TRUE
  /\ \/ dumper # "starting" /\ dumper' = "none" /\ target' = {}
     \/ /\ dumper \in {"starting", "running", "leaving"}
        /\ dumper' = IF dumper = "running" THEN "leaving" ELSE dumper
        /\ UNCHANGED target
  /\ UNCHANGED files

\* MsgSniffingStop: the service waits a while and forgets a subprocess that is
\* gone by then.  One that was not listening yet has missed the message.
Stop ==
  /\ \/ /\ dumper # "starting"
        /\ dumper' = "none" /\ target' = {} /\ reply' = TRUE
     \/ /\ dumper \in {"starting", "running", "leaving"}
        /\ dumper' = IF dumper = "running" THEN "leaving" ELSE dumper
        /\ reply' = FALSE
        /\ UNCHANGED target
  /\ UNCHANGED files

\* MsgSniffingGetCapture has something to answer with.
CanGet(c) == files[c].exists

\* The subprocess listens, and has opened its file anew.
DumperReady ==
  /\ dumper = "starting"
  /\ dumper' = "running"
  /\ files' = [c \in Captures |-> IF c \in target
                 THEN [exists |-> TRUE, packets |-> {}] ELSE files[c]]
  /\ UNCHANGED <<target, reply>>

\* It records a packet that an agent sent.
DumperRecords(p) ==
  /\ dumper \in {"running", "leaving"}
  /\ files' = [c \in Captures |-> IF c \in target
                 THEN [files[c] EXCEPT !.packets = @ \cup {p}] ELSE files[c]]
  /\ UNCHANGED <<dumper, target, reply>>

DumperExits ==
  /\ dumper = "leaving"
  /\ dumper' = "gone"
  /\ UNCHANGED <<target, files, reply>>

=============================================================================
