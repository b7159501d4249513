--------------------------------- MODULE Ddns ---------------------------------
(***************************************************************************)
(* The dynamic DNS CronJob (cloudflare-ddns.py, cronjob.yaml): every A     *)
(* record of a list is pointed at the site's public address, by a read and *)
(* a write of the whole record.  The address belongs to the job, the rest  *)
(* of the record (proxied, ttl, comment, tags, settings) to Terraform.     *)
(***************************************************************************)
EXTENDS Integers, Sequences, FiniteSets

CONSTANTS
    Names,       \* of records
    Addresses,
    Notes,       \* what Terraform decorates a record with, None for nothing
    None,
    EntryLists,  \* values of DDNS_RECORDS: sequences of [name, flag]
    MaxChanges   \* bound: moves of the address, new decorations and faults

VARIABLES
    zone,     \* name -> its A records, each [content, proxied, note]
    entries,  \* DDNS_RECORDS
    site,     \* the site's public address
    wanted,   \* name -> [proxied, note] as Terraform declares it
    sync,     \* the CronJob's pod
    changes   \* how much of MaxChanges is spent

ddnsVars == <<zone, entries, site, wanted, sync, changes>>

Idle == [phase |-> "idle", addr |-> None, at |-> 0, read |-> {}, ok |-> TRUE, failed |-> {}, exit |-> 0]

DdnsInit ==
    /\ entries \in EntryLists /\ site \in Addresses
    /\ wanted \in [Names -> [proxied : {FALSE}, note : Notes]]
    /\ zone \in [Names -> {{}, {[content |-> CHOOSE a \in Addresses : TRUE, proxied |-> FALSE, note |-> None]}}
                          \cup {{[content |-> a, proxied |-> TRUE, note |-> None] : a \in Addresses}}]
    /\ sync = Idle /\ changes = 0

(***************************************************************************)
(* One run of the program.                                                 *)
(***************************************************************************)
Refused == entries = <<>> \/ \E i \in DOMAIN entries : entries[i].name \notin Names \/ entries[i].flag = "other"
Entry == entries[sync.at]
Spend == changes < MaxChanges /\ changes' = changes + 1
Ends(status) == sync' = [sync EXCEPT !.phase = "done", !.exit = status, !.read = {}]

(* Broken variant: the address is asked for once and remembered. *)
CurrentRemembered == IF sync.addr = None THEN site ELSE sync.addr

Current == site   \* public_ip

(* The CronJob starts a run, which may find no address or no zone. *)
Start ==
    /\ sync.phase \in {"idle", "done"}
    /\ \/ Refused /\ Ends(1) /\ UNCHANGED changes
       \/ ~Refused /\ Spend /\ sync' = [Idle EXCEPT !.phase = "done", !.exit = 1]
       \/ ~Refused /\ sync' = [Idle EXCEPT !.phase = "query", !.addr = Current, !.at = 1] /\ UNCHANGED changes
    /\ UNCHANGED <<zone, entries, site, wanted>>

(* The record is settled, well or not: on to the next, or to the exit. *)
Advance(ok) ==
    LET now == [sync EXCEPT !.ok = @ /\ ok, !.failed = IF ok THEN @ ELSE @ \cup {Entry.name}, !.read = {}]
    IN  sync' = IF now.at = Len(entries) THEN [now EXCEPT !.phase = "done", !.exit = IF now.ok THEN 0 ELSE 1]
                ELSE [now EXCEPT !.phase = "query", !.at = @ + 1]

Query ==
    /\ sync.phase = "query"
    /\ LET found == zone[Entry.name]
           current == \E r \in found : r.content = sync.addr
       IN  \/ Spend /\ Advance(FALSE)
           \/ UNCHANGED changes /\ IF Cardinality(found) > 1 THEN Advance(FALSE)
                                   ELSE IF current THEN Advance(TRUE)
                                   ELSE sync' = [sync EXCEPT !.phase = "write", !.read = found]
    /\ UNCHANGED <<zone, entries, site, wanted>>

(* Broken variant: an update sends what a creation sends. *)
PayloadBare(read) == [content |-> sync.addr, proxied |-> Entry.flag # "false", note |-> None]

(* A creation takes the flag of the entry, an update keeps what was read.  *)
Payload(read) ==
    IF read = {} THEN [content |-> sync.addr, proxied |-> Entry.flag # "false", note |-> None]
    ELSE [(CHOOSE r \in read : TRUE) EXCEPT !.content = sync.addr]

(* PUT or POST: carried out or not, and answered or not. *)
Write ==
    /\ sync.phase = "write"
    /\ \/ zone' = [zone EXCEPT ![Entry.name] = {Payload(sync.read)}] /\ Advance(TRUE) /\ UNCHANGED changes
       \/ zone' = [zone EXCEPT ![Entry.name] = {Payload(sync.read)}] /\ Advance(FALSE) /\ Spend
       \/ UNCHANGED zone /\ Advance(FALSE) /\ Spend
    /\ UNCHANGED <<entries, site, wanted>>

(* activeDeadlineSeconds, an eviction or a crash. *)
Killed ==
    /\ sync.phase \in {"query", "write"} /\ Spend
    /\ sync' = [Idle EXCEPT !.phase = "done", !.exit = 1]
    /\ UNCHANGED <<zone, entries, site, wanted>>

(***************************************************************************)
(* What acts beside it.                                                    *)
(***************************************************************************)
Moves == Spend /\ (\E a \in Addresses \ {site} : site' = a) /\ UNCHANGED <<zone, entries, wanted, sync>>
Declares ==
    /\ Spend /\ \E n \in Names, w \in [proxied : BOOLEAN, note : Notes] : wanted[n] # w /\ wanted' = [wanted EXCEPT ![n] = w]
    /\ UNCHANGED <<zone, entries, site, sync>>
Decorated(n) == {[content |-> r.content, proxied |-> wanted[n].proxied, note |-> wanted[n].note] : r \in zone[n]}
TerraformApplies ==
    /\ \E n \in Names : zone[n] # Decorated(n) /\ zone' = [zone EXCEPT ![n] = Decorated(n)]
    /\ UNCHANGED <<entries, site, wanted, sync, changes>>

Job == Start \/ Query \/ Write
DdnsNext == Job \/ Killed \/ Moves \/ Declares \/ TerraformApplies

(* The CronJob starts its pods, they run on, and Terraform is applied.     *)
Fairness == WF_ddnsVars(Job) /\ WF_ddnsVars(TerraformApplies)

(***************************************************************************)
(* Properties.                                                             *)
(***************************************************************************)
PointsAt(name, addr) == Cardinality(zone[name]) = 1 /\ \A r \in zone[name] : r.content = addr

(* A run that went through the list has tried every record: each is at the *)
(* address of the run or its own calls failed, and the exit status is 0    *)
(* exactly if none failed.                                                 *)
EveryRecordAccounted ==
    sync.phase = "done" /\ sync.at > 0 =>
        /\ \A i \in DOMAIN entries : entries[i].name \in sync.failed \/ PointsAt(entries[i].name, sync.addr)
        /\ sync.exit = 0 <=> sync.failed = {}

(* A write of the job changes the decorations of a record only if they     *)
(* have changed since it read them.                                        *)
DecorationsKept ==
    Write => \A n \in Names : \A r \in zone[n], s \in zone'[n] :
                 (r.proxied # s.proxied \/ r.note # s.note) => r \notin sync.read

(* Once the address, the declarations and the network are quiet, every     *)
(* listed record that is no duplicate comes to rest at the address of the  *)
(* site with the decorations Terraform declares.                           *)
Listed == {entries[i].name : i \in {j \in DOMAIN entries : ~Refused}}
Settled(n) == PointsAt(n, site) /\ zone[n] = Decorated(n)
Converges == <>[](\A n \in Listed : Cardinality(zone[n]) < 2 => Settled(n))
=============================================================================
