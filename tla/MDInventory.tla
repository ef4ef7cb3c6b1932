---------------------------- MODULE MDInventory ----------------------------
(***************************************************************************)
(* The inventory of MD arrays (mdraid.go) and the binding of array UUIDs   *)
(* to disks (storage_identity.go).  /proc/mdstat is one read; what sysfs   *)
(* has on an array is one read per attribute, and arrays fail, recover,    *)
(* stop and are assembled in between.  A binding takes the storage         *)
(* inventory, the arrays twice, and the storage inventory again.           *)
(***************************************************************************)
EXTENDS Integers, FiniteSets, Sequences, SequencesExt

CONSTANTS
    Arrays,      \* names of arrays, in order
    Unsteady,    \* those that something happens to
    Drives,
    Uuids,       \* canonical UUIDs, and "" for one that is not
    MaxEvents    \* bound on what happens to the arrays

Names == ToSet(Arrays)

VARIABLES
    arr,         \* what the kernel has: name -> array
    ticks,       \* the next diskseq; also counts the events
    o,           \* the observation
    then         \* ghost: arr when the first mdstat was read

vars == <<arr, ticks, o, then>>

\* seq 0: no such array.  disks: raid_disks.  faulty: members that failed,
\* spare: members that are not, or not yet, in use.
NoArray == [seq |-> 0, uuid |-> "", level |-> "raid1", disks |-> 0, members |-> {}, faulty |-> {}, spare |-> {},
            state |-> "clear", action |-> "idle"]

Working(a) == Cardinality(a.members \ (a.faulty \cup a.spare))
Degraded(a) == a.disks - Working(a)

---------------------------------------------------------------------------
(* What the kernel shows.                                                  *)

\* parseMDStat's record of an array.  An inactive array has neither level nor
\* counts; RAID 0 has no counts; only a running resync or recovery is named.
NoRecord == [known |-> FALSE, state |-> "", level |-> "", counts |-> <<>>, members |-> {}, faulty |-> {}, action |-> ""]
MDStat(a) ==
    LET on == a.state # "inactive"
    IN [known |-> TRUE, state |-> IF on THEN "active" ELSE "inactive", level |-> IF on THEN a.level ELSE "unknown",
        counts |-> IF on /\ a.level = "raid1" THEN <<a.disks, Working(a)>> ELSE <<>>,
        members |-> a.members, faulty |-> a.faulty, action |-> IF a.action = "recover" THEN "recovery" ELSE "idle"]

Attributes == <<"uuid", "level", "state", "degraded", "disks", "action", "slaves">>
NoSysfs == [read |-> TRUE, uuid |-> "", level |-> "", state |-> "", degraded |-> 0, disks |-> 0, action |-> "", slaves |-> {}]

\* readSysfsAttribute, and the listing of slaves.  Without its UUID an array is
\* not identified, but it is still read.
Attribute(sysfs, a, x) ==
    IF a.seq = 0 THEN [sysfs EXCEPT !.read = @ /\ x = "uuid"]
    ELSE CASE x = "uuid" -> [sysfs EXCEPT !.uuid = a.uuid]
           [] x = "level" -> [sysfs EXCEPT !.level = a.level]
           [] x = "state" -> [sysfs EXCEPT !.state = a.state]
           [] x = "degraded" -> [sysfs EXCEPT !.degraded = Degraded(a)]
           [] x = "disks" -> [sysfs EXCEPT !.disks = a.disks]
           [] x = "action" -> [sysfs EXCEPT !.action = a.action]
           [] OTHER -> [sysfs EXCEPT !.slaves = a.members]

---------------------------------------------------------------------------
(* readMDArraySysfs.                                                       *)

normalizeMDSyncAction(action) == IF action = "recovery" THEN "recover" ELSE action
Off(state) == state \in {"inactive", "clear", "suspended"}

\* The two sources agree on everything both of them tell, but the counts.
AgreeOnNames(rec, sysfs) ==
    /\ rec.members # {} => rec.members = sysfs.slaves
    /\ rec.level # "unknown" => rec.level = sysfs.level
    /\ rec.action # "" => normalizeMDSyncAction(rec.action) = sysfs.action
    /\ rec.state = "inactive" => Off(sysfs.state)
    /\ rec.state = "active" => ~Off(sysfs.state)

Agree(rec, sysfs) ==
    /\ AgreeOnNames(rec, sysfs)
    /\ rec.faulty # {} => sysfs.degraded > 0
    /\ rec.counts # <<>> => rec.counts[1] = sysfs.disks /\ rec.counts[1] - rec.counts[2] = sysfs.degraded

classifyMDHealth(sysfs, consistent) ==
    CASE ~consistent -> "unknown"
      [] consistent /\ sysfs.state = "inactive" -> "inactive"
      [] consistent /\ sysfs.state # "inactive" /\ sysfs.disks = 0 -> "unknown"
      [] consistent /\ sysfs.state # "inactive" /\ sysfs.disks > 0 ->
            CASE sysfs.degraded > 0 -> "degraded"
              [] sysfs.degraded = 0 /\ sysfs.action = "frozen" -> "paused"
              [] sysfs.degraded = 0 /\ sysfs.action \notin {"frozen", "idle"} -> "syncing"
              [] OTHER -> IF sysfs.state \in {"clean", "active", "active-idle", "read-auto"} THEN "healthy" ELSE "unknown"

\* An array that mdstat does not have is never more than inactive or unknown.
Judged(rec, sysfs) ==
    LET usable == sysfs.read /\ sysfs.degraded <= sysfs.disks
        complete == usable /\ Agree(rec, sysfs)
    IN [uuid |-> sysfs.uuid, status |-> IF sysfs.uuid = "" THEN "invalid" ELSE "present", identified |-> sysfs.uuid # "",
        complete |-> complete /\ rec.known, level |-> IF usable THEN sysfs.level ELSE rec.level,
        members |-> IF usable /\ rec.members = {} THEN sysfs.slaves ELSE rec.members,
        health |-> CASE rec.known -> classifyMDHealth(sysfs, complete)
                     [] ~rec.known /\ usable /\ sysfs.state = "inactive" -> "inactive"
                     [] OTHER -> "unknown"]

---------------------------------------------------------------------------
(* finishMDArraySnapshot.                                                  *)

\* markDuplicateMDArrayUUIDs
Ambiguous(seen, n) == \E other \in DOMAIN seen \ {n} : seen[other].uuid = seen[n].uuid

\* The snapshot's status: what mdstat left of it, unless some array is not
\* complete.
Status(status, seen) == IF \A n \in DOMAIN seen : seen[n].complete THEN status ELSE "partial"

Finished(seen) ==
    LET whole == \A n \in DOMAIN seen : seen[n].identified
    IN [n \in DOMAIN seen |->
            [seen[n] EXCEPT !.status = CASE whole /\ Ambiguous(seen, n) -> "ambiguous" [] ~whole /\ @ = "present" -> "unavailable" [] OTHER -> @,
                            !.uuid = IF whole THEN @ ELSE ""]]

\* sameMDIdentitySnapshot
SameIdentity(a, b) ==
    /\ DOMAIN a = DOMAIN b
    /\ \A n \in DOMAIN a : /\ a[n].identified /\ b[n].identified /\ a[n].level = b[n].level /\ a[n].uuid = b[n].uuid
                           /\ a[n].status = b[n].status /\ a[n].members = b[n].members

---------------------------------------------------------------------------
(* The observer.                                                           *)

Idle == [op |-> "none", pc |-> "idle", pass |-> 1, status |-> "", listed |-> {}, todo |-> <<>>, rest |-> <<>>, stat |-> [n \in Names |-> NoRecord],
         sysfs |-> NoSysfs, seen |-> <<>>, before |-> <<>>, was |-> "", blocks |-> <<>>, ids |-> <<>>]

Started(u) == [NoArray EXCEPT !.seq = 1, !.uuid = u, !.disks = Cardinality(Drives), !.members = Drives, !.state = "clean"]

\* Arrays of either level, or with a faulty member.
Init ==
    /\ \E u \in Uuids \ {""} :
       \E kind \in {Started(u), [Started(u) EXCEPT !.level = "raid0"]} \cup {[Started(u) EXCEPT !.faulty = {d}] : d \in Drives} :
            arr \in [Names -> {NoArray, kind}]
    /\ ticks = 2 /\ o = Idle /\ then = arr

Machine == <<arr, ticks>>
At(pc) == o.pc = pc /\ UNCHANGED Machine

\* collectStorage, as far as the arrays go; StorageScan is about what happens
\* while it reads.
Blocks == [n \in {m \in Names : arr[m].seq # 0} |-> [seq |-> arr[n].seq, members |-> arr[n].members]]

\* One inventory, for the interface, or a binding: collectMDStorageIdentitySnapshot.
Collect(op) ==
    /\ At("idle") /\ UNCHANGED then
    /\ o' = [Idle EXCEPT !.op = op, !.pc = "list", !.blocks = IF op = "bind" THEN Blocks ELSE <<>>]

List ==
    /\ At("list") /\ UNCHANGED then
    /\ o' = [o EXCEPT !.pc = "stat", !.listed = {n \in Names : arr[n].seq # 0}]

\* mdstat may be missing, unreadable or malformed; then every array is read
\* from sysfs alone, as are the arrays mdstat does not have.
ReadMDStat ==
    LET there == {n \in Names : arr[n].seq # 0}
        go(status, records, names) ==
            o' = [o EXCEPT !.pc = "array", !.status = status, !.stat = records, !.rest = Attributes, !.sysfs = NoSysfs, !.seen = <<>>,
                           !.todo = SelectSeq(Arrays, LAMBDA n : n \in names)]
    IN /\ At("stat") /\ then' = (IF o.pass = 1 THEN arr ELSE then)
       /\ \/ go("available", [n \in Names |-> IF n \in there THEN MDStat(arr[n]) ELSE NoRecord], there \cup o.listed)
          \/ go("partial", [n \in Names |-> NoRecord], o.listed)

\* One attribute of one array; a node that was not listed is not looked for.
\* Nothing that is read after an attribute that cannot be matters.
ReadArray ==
    LET n == Head(o.todo)
        sysfs == IF n \in o.listed THEN Attribute(o.sysfs, arr[n], Head(o.rest)) ELSE [o.sysfs EXCEPT !.read = FALSE]
    IN /\ At("array") /\ o.todo # <<>> /\ UNCHANGED then
       /\ o' = IF sysfs.read /\ Len(o.rest) > 1 THEN [o EXCEPT !.sysfs = sysfs, !.rest = Tail(@)]
               ELSE [o EXCEPT !.sysfs = NoSysfs, !.rest = Attributes, !.todo = Tail(@),
                              !.seen = [m \in DOMAIN @ \cup {n} |-> IF m = n THEN Judged(o.stat[n], sysfs) ELSE @[m]]]

Done(result) == [Idle EXCEPT !.op = o.op, !.pc = result]

\* correlateMDStorageIdentity: every array is bound, by itself, to its disks.
Bindable(blocks, seen) ==
    /\ \A n \in DOMAIN seen : seen[n].complete
    /\ DOMAIN blocks = DOMAIN seen
    /\ \A n \in DOMAIN seen : seen[n].status = "present" /\ blocks[n].members # {} /\ blocks[n].members = seen[n].members

\* The last inventory of a binding is done: it must repeat the first, and the
\* storage must be as it was before both.
Compared(same) ==
    IF same /\ o.was = "available" /\ o.status = o.was /\ SameIdentity(o.before, o.seen) /\ Bindable(o.blocks, o.before)
    THEN [Done("bound") EXCEPT !.ids = [n \in DOMAIN o.before |->
              [uuid |-> o.before[n].uuid, seq |-> o.blocks[n].seq, members |-> o.before[n].members]]]
    ELSE Done("refused")

BindOnce == o' = Compared(TRUE)
Bind == o' = Compared(o.blocks = Blocks)

\* The end of an inventory, and collectStorage once more after the second.
Finish ==
    /\ At("array") /\ o.todo = <<>> /\ UNCHANGED then
    /\ o' = CASE o.op = "view" -> [Done("seen") EXCEPT !.status = Status(o.status, o.seen), !.seen = Finished(o.seen)]
              [] o.op = "bind" /\ o.pass = 1 ->
                    [o EXCEPT !.pc = "list", !.pass = 2, !.before = Finished(o.seen), !.was = Status(o.status, o.seen), !.listed = {},
                              !.stat = Idle.stat, !.seen = <<>>, !.status = ""]
              [] OTHER -> [o EXCEPT !.pc = "compare", !.seen = Finished(o.seen), !.status = Status(o.status, o.seen), !.stat = Idle.stat]

Compare == At("compare") /\ UNCHANGED then /\ Bind

Forget == o.pc \in {"seen", "bound", "refused"} /\ o' = Idle /\ UNCHANGED <<Machine, then>>

---------------------------------------------------------------------------
(* The arrays.                                                             *)

Event(n, a) ==
    /\ ticks <= MaxEvents + 1 /\ ticks' = ticks + 1 /\ arr' = [arr EXCEPT ![n] = a] /\ UNCHANGED <<o, then>>

Mirror(n) == arr[n].seq # 0 /\ arr[n].level = "raid1" /\ arr[n].state # "inactive"
FailDisk(n, d) == Mirror(n) /\ d \in arr[n].members \ arr[n].faulty
                  /\ Event(n, [arr[n] EXCEPT !.faulty = @ \cup {d}, !.spare = @ \ {d}, !.action = "idle"])
RemoveDisk(n, d) == Mirror(n) /\ d \in arr[n].faulty /\ Event(n, [arr[n] EXCEPT !.faulty = @ \ {d}, !.members = @ \ {d}])
AddDisk(n, d) == Mirror(n) /\ d \notin arr[n].members
                 /\ Event(n, [arr[n] EXCEPT !.members = @ \cup {d}, !.spare = @ \cup {d}, !.action = "recover"])
Recovered(n) == Mirror(n) /\ arr[n].action # "idle" /\ Event(n, [arr[n] EXCEPT !.action = "idle", !.spare = {}])
Freeze(n) == Mirror(n) /\ arr[n].action = "idle" /\ Event(n, [arr[n] EXCEPT !.action = "frozen"])
StopArray(n) == arr[n].seq # 0 /\ Event(n, NoArray)
Assemble(n, u, members, state) ==
    /\ arr[n].seq = 0 /\ members # {}
    /\ Event(n, [NoArray EXCEPT !.seq = ticks, !.uuid = u, !.disks = Cardinality(Drives), !.members = members, !.state = state])

Environment ==
    \E n \in Unsteady :
        \/ \E d \in Drives : FailDisk(n, d) \/ RemoveDisk(n, d) \/ AddDisk(n, d)
        \/ Recovered(n) \/ Freeze(n) \/ StopArray(n)
        \/ \E u \in Uuids, members \in SUBSET Drives, state \in {"clean", "inactive"} : Assemble(n, u, members, state)

Next == (\E op \in {"view", "bind"} : Collect(op)) \/ List \/ ReadMDStat \/ ReadArray \/ Finish \/ Compare \/ Forget \/ Environment

Spec == Init /\ [][Next]_vars

---------------------------------------------------------------------------
(* Properties.                                                             *)

\* An array reported healthy had all its members, none of them faulty, and was
\* not being rebuilt, at the one moment at which mdstat was read, whatever the
\* attributes read after it belong to.
HealthyWasWhole ==
    o.pc = "seen" =>
        \A n \in DOMAIN o.seen : o.seen[n].health = "healthy" =>
            then[n].seq # 0 /\ Degraded(then[n]) = 0 /\ then[n].faulty = {} /\ then[n].action # "recover"

\* A binding was true at one moment: each array had that UUID, those members
\* and that generation when the first mdstat was read.  No two arrays have one
\* UUID.
BoundTogether ==
    o.pc = "bound" =>
        \A n \in DOMAIN o.ids :
            /\ then[n].seq = o.ids[n].seq /\ then[n].uuid = o.ids[n].uuid /\ then[n].members = o.ids[n].members
            /\ \A other \in DOMAIN o.ids \ {n} : o.ids[other].uuid # o.ids[n].uuid
=============================================================================
