------------------------------- MODULE DDWRT -------------------------------
(***************************************************************************)
(* DDWRTClient (internal/ddwrt.go): a record on a DD-WRT router is a line  *)
(* of the nvram variable dnsmasq_options, which CreateRecord and           *)
(* DeleteRecord read, change and write back over SSH, one command after    *)
(* the other, before they make dnsmasq read it again.  Any command may     *)
(* fail, before or after the router has performed it, and the router may   *)
(* reboot.  Within a process ledgerMu allows one such session at a time;   *)
(* replicas share the router without a lock.                               *)
(***************************************************************************)
EXTENDS Naturals, Sequences, FiniteSets

CONSTANTS
  Process,     \* clusterbook processes
  Hostname,    \* cluster names
  IP,          \* addresses of records
  Options,     \* dnsmasq_options before clusterbook's first write
  MaxCalls,    \* bound: CreateRecord and DeleteRecord calls
  MaxReboots,  \* bound: reboots of the router
  NoTask,      \* a process that has not called yet
  NoHost,      \* the host of a line that is no record of clusterbook
  NoRecord,    \* what lookupDNSEntry finds when there is no record
  Stopped      \* running, while there is no dnsmasq process

(* The lines that are there before clusterbook's first write are no        *)
(* records of its clusters: it would take a line with "/fqdn/" for its own.*)
ASSUME RouterAssumption ==
  /\ Options \in Seq({Options[i] : i \in DOMAIN Options})
  /\ \A i \in DOMAIN Options : Options[i].host = NoHost
  /\ NoHost \notin Hostname

VARIABLES
  nvram,     \* dnsmasq_options in memory, what "nvram get" reads
  flash,     \* dnsmasq_options as committed, what a reboot restores
  running,   \* the options the dnsmasq process works with
  step,      \* the command that each process is going to send
  task,      \* what it was asked to do
  updated,   \* the options it is going to write
  result,    \* "ok", or the step that its error names
  alone,     \* alone[p]: p is the last caller, and nobody else was at work when it called
  calls, reboots

routerVars == <<nvram, flash, running>>
vars == <<routerVars, step, task, updated, result, alone, calls, reboots>>

Foreign == {Options[i] : i \in DOMAIN Options}
Line == Foreign \cup [host : Hostname, ip : IP]
Task == [op : {"create"}, host : Hostname, ip : IP] \cup [op : {"delete"}, host : Hostname]

(* A process sends "get", "set", "commit" and then dnsmasqReloadCommands   *)
(* until one of them works.                                                *)
Reloads == {"restart", "stopstart", "hup"}

Init ==
  /\ nvram = Options /\ flash = Options /\ running = Options
  /\ step = [p \in Process |-> "none"]
  /\ task = [p \in Process |-> NoTask]
  /\ updated = [p \in Process |-> <<>>]
  /\ result = [p \in Process |-> "none"]
  /\ alone = [p \in Process |-> FALSE]
  /\ calls = 0 /\ reboots = 0

-----------------------------------------------------------------------------
(* The lines at the given places, in their order.                          *)
LinesAt(existing, places) ==
  [k \in 1..Cardinality(places) |->
     existing[CHOOSE i \in places : Cardinality({j \in places : j <= i}) = k]]

(* The lines that contain "/fqdn/".                                        *)
LinesOf(existing, host) == {i \in DOMAIN existing : existing[i].host = host}

(* Mutant: only the lines of records are put together again.               *)
removeForeignLines(existing, host) ==
  LinesAt(existing, {i \in DOMAIN existing : existing[i].host \in Hostname \ {host}})

removeDNSEntry(existing, host) ==
  LinesAt(existing, DOMAIN existing \ LinesOf(existing, host))

(* Mutant: the new line is added without removing an old one.              *)
appendDNSEntry(existing, host, ip) == Append(existing, [host |-> host, ip |-> ip])

(* Mutant: dnsmasq_options is overwritten.                                 *)
overwriteDNSEntry(existing, host, ip) == <<[host |-> host, ip |-> ip]>>

mergeDNSEntry(existing, host, ip) ==
  Append(removeDNSEntry(existing, host), [host |-> host, ip |-> ip])

(* The first line that contains "/fqdn/".                                  *)
lookupDNSEntry(existing, host) ==
  LET found == LinesOf(existing, host)
  IN  IF found = {} THEN NoRecord
      ELSE existing[CHOOSE i \in found : \A j \in found : i <= j].ip

Updated(t, existing) ==
  IF t.op = "create" THEN mergeDNSEntry(existing, t.host, t.ip)
                     ELSE removeDNSEntry(existing, t.host)

-----------------------------------------------------------------------------
Send(p, s) == step' = [step EXCEPT ![p] = s]

Return(p, r) == Send(p, "none") /\ result' = [result EXCEPT ![p] = r]

(* CreateRecord or DeleteRecord is called and dials the router.            *)
Call(p, t) ==
  /\ step[p] = "none"
  /\ calls < MaxCalls
  /\ calls' = calls + 1
  /\ task' = [task EXCEPT ![p] = t]
  /\ result' = [result EXCEPT ![p] = "none"]
  /\ alone' = [q \in Process |-> q = p /\ \A u \in Process : step[u] = "none"]
  /\ Send(p, "get")
  /\ UNCHANGED <<routerVars, updated, reboots>>

Get(p) ==
  /\ step[p] = "get"
  /\ updated' = [updated EXCEPT ![p] = Updated(task[p], nvram)]
  /\ Send(p, "set")
  /\ UNCHANGED <<routerVars, task, result, alone, calls, reboots>>

Set(p) ==
  /\ step[p] = "set"
  /\ nvram' = updated[p]
  /\ Send(p, "commit")
  /\ UNCHANGED <<flash, running, task, updated, result, alone, calls, reboots>>

Commit(p) ==
  /\ step[p] = "commit"
  /\ flash' = nvram
  /\ Send(p, "restart")
  /\ UNCHANGED <<nvram, running, task, updated, result, alone, calls, reboots>>

(* A command before the reload fails, possibly after it took effect on the *)
(* router, or the dial does.                                               *)
CommandFails(p) ==
  /\ step[p] \in {"get", "set", "commit"}
  /\ \/ UNCHANGED <<nvram, flash>>
     \/ step[p] = "set" /\ nvram' = updated[p] /\ flash' = flash
     \/ step[p] = "commit" /\ nvram' = nvram /\ flash' = nvram
  /\ Return(p, step[p])
  /\ UNCHANGED <<running, task, updated, alone, calls, reboots>>

(* A signal needs a process to receive it.                                 *)
reloadDnsmasq(p) ==
  /\ step[p] \in Reloads
  /\ step[p] = "hup" => running # Stopped
  /\ running' = nvram
  /\ Return(p, "ok")
  /\ UNCHANGED <<nvram, flash, task, updated, alone, calls, reboots>>

(* Mutant: when no command worked, the last error is dropped.              *)
ReloadFailureIgnored(p) ==
  /\ step[p] \in Reloads
  /\ running' = running
  /\ CASE step[p] = "restart" -> Send(p, "stopstart") /\ result' = result
       [] step[p] = "stopstart" -> Send(p, "hup") /\ result' = result
       [] step[p] = "hup" -> Return(p, "ok")
  /\ UNCHANGED <<nvram, flash, task, updated, alone, calls, reboots>>

(* The command is not found, or not answered; of "stopservice dnsmasq &&   *)
(* startservice dnsmasq" the second half alone may fail.                   *)
ReloadFails(p) ==
  /\ step[p] \in Reloads
  /\ \/ running' = running
     \/ running' = nvram /\ (step[p] = "hup" => running # Stopped)
     \/ running' = Stopped /\ step[p] = "stopstart"
  /\ CASE step[p] = "restart" -> Send(p, "stopstart") /\ result' = result
       [] step[p] = "stopstart" -> Send(p, "hup") /\ result' = result
       [] step[p] = "hup" -> Return(p, "reload")
  /\ UNCHANGED <<nvram, flash, task, updated, alone, calls, reboots>>

(* The router comes up with what was committed; open sessions break.       *)
Reboot ==
  /\ reboots < MaxReboots
  /\ reboots' = reboots + 1
  /\ nvram' = flash
  /\ running' = flash
  /\ step' = [p \in Process |-> "none"]
  /\ result' = [p \in Process |-> IF step[p] = "none" THEN result[p]
                                  ELSE IF step[p] \in Reloads THEN "reload" ELSE step[p]]
  /\ UNCHANGED <<flash, task, updated, alone, calls>>

Rest == (\A p \in Process : step[p] = "none") /\ UNCHANGED vars

Next ==
  \/ \E p \in Process, t \in Task : Call(p, t)
  \/ \E p \in Process :
       Get(p) \/ Set(p) \/ Commit(p) \/ CommandFails(p) \/ reloadDnsmasq(p) \/ ReloadFails(p)
  \/ Reboot
  \/ Rest

Spec == Init /\ [][Next]_vars

-----------------------------------------------------------------------------
(* The record a call is to bring about.                                    *)
Asked(t) == IF t.op = "create" THEN t.ip ELSE NoRecord

(* What was there before clusterbook came is still there, in its order.    *)
KeepsForeign(options) ==
  LinesAt(options, {i \in DOMAIN options : options[i] \in Foreign}) = Options

(* A cluster has one line at most.                                         *)
Unambiguous(options) ==
  \A i, j \in DOMAIN options :
    options[i].host = options[j].host /\ options[i].host \in Hostname => i = j

(* CreateRecord or DeleteRecord returned nil, and no replica was at work   *)
(* at the same time: dnsmasq serves exactly what is in nvram, the record   *)
(* is as asked for, and a reboot changes nothing, however many calls raced *)
(* or failed half way before and left nvram, flash and dnsmasq apart.      *)
WriteTakesHold ==
  \A p \in Process : result[p] = "ok" /\ alone[p] =>
    /\ running = nvram /\ flash = nvram
    /\ lookupDNSEntry(running, task[p].host) = Asked(task[p])

(* What the router has in nvram for the other clusters is not changed by a *)
(* call for one of them, at any of its steps, unless the router reboots or *)
(* replicas are at work at the same time (ledger.go: "concurrent edits     *)
(* drop entries", which the lock rules out within one process).            *)
OthersKept ==
  [][ reboots' = reboots =>
        \A h \in Hostname : lookupDNSEntry(nvram', h) # lookupDNSEntry(nvram, h) =>
          \E p \in Process : step[p] = "set" /\ (alone[p] => task[p].host = h) ]_vars

(* The lines somebody else put into dnsmasq_options stay, in their order,  *)
(* through calls, failures, reboots and even races between replicas.       *)
ForeignLinesKept == KeepsForeign(nvram)

(* A cluster never has two lines, of which dnsmasq would serve both, not   *)
(* even when replicas write at the same time.                              *)
OneLinePerHost == Unambiguous(nvram)

-----------------------------------------------------------------------------
(* What the proofs of these need: what options on a router are like, ...   *)
Proper(options) == options \in Seq(Line) /\ KeepsForeign(options) /\ Unambiguous(options)

(* ... what values the variables have, ...                                 *)
TypeOK ==
  /\ step \in [Process -> {"none", "get", "set", "commit"} \cup Reloads]
  /\ task \in [Process -> Task \cup {NoTask}]
  /\ result \in [Process -> {"none", "ok", "get", "set", "commit", "reload"}]
  /\ alone \in [Process -> BOOLEAN]
  /\ DOMAIN updated = Process
  /\ calls \in Nat /\ reboots \in Nat
  /\ \A p \in Process : step[p] # "none" => task[p] \in Task /\ result[p] = "none"

(* ... that whatever is on the router or on its way there is proper, ...   *)
ProperOptions ==
  Proper(nvram) /\ Proper(flash) /\ \A p \in Process : step[p] = "set" => Proper(updated[p])

(* ... and how far a call has come that no other races with.               *)
Progress(p) ==
  /\ \A q \in Process \ {p} : step[q] = "none"
  /\ step[p] = "set" => updated[p] = Updated(task[p], nvram)
  /\ step[p] \in {"commit"} \cup Reloads \/ result[p] = "ok" =>
       lookupDNSEntry(nvram, task[p].host) = Asked(task[p])
  /\ step[p] \in Reloads \/ result[p] = "ok" => flash = nvram
  /\ result[p] = "ok" => running = nvram

InductiveInv ==
  TypeOK /\ ProperOptions /\ \A p \in Process : alone[p] => Progress(p)

=============================================================================
