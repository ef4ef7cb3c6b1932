---------------------------- MODULE BlockTarget ----------------------------
(***************************************************************************)
(* Block exports over backing files: internal/backingpin's Pin,            *)
(* backingUseOwner, writableOwner with its four admissions and its         *)
(* supervisor, and lioBackend, over the leases that the policy and the     *)
(* credential owners hand out.                                             *)
(*                                                                         *)
(* A consumer t takes the pinned files Roster[t]; two pins may name one    *)
(* object through different mounts.  lio[t] is the kernel's side, what     *)
(* configfs holds for t: "dir" the target and its credentials, "lun" also  *)
(* storage objects over the lent descriptors.  pc[t] is the next call of   *)
(* whoever holds the owner's mutex; "" when it is free.                    *)
(***************************************************************************)
EXTENDS Naturals, FiniteSets, FiniteSetsExt

CONSTANTS
    Targets,
    Kind,        \* the constructor: "plain", "policy", "credential" or "target"
    Pins,        \* a finite set of numbers, claimed in this order
    Roster,      \* the pins each consumer selects
    Object,      \* the device and inode a pin refers to
    MaxFaults,   \* bound: files, sources and configfs entries changed by others
    MaxRounds    \* bound: admissions of one consumer

ASSUME TargetAssumption ==
    /\ Kind \in [Targets -> {"plain", "policy", "credential", "target"}]
    /\ Pins \subseteq Nat
    /\ Roster \in [Targets -> SUBSET Pins \ {{}}]
    /\ \A t \in Targets : Kind[t] # "target" => Cardinality(Roster[t]) = 1
    /\ MaxFaults \in Nat /\ MaxRounds \in Nat
    /\ "nobody" \notin Targets

VARIABLES own, pc, pin, use, lio, drift, faults

vars == <<own, pc, pin, use, lio, drift, faults>>

Sources == {"policy", "credentials"}
NoOne == "nobody"
Fresh == [ph |-> "none", started |-> FALSE, has |-> {}, files |-> {}, sup |-> FALSE,
          cancel |-> FALSE, to |-> "", rounds |-> 0]
NoTarget == [has |-> "", on |-> FALSE, session |-> FALSE]

Init ==
    /\ own = [t \in Targets |-> Fresh]
    /\ pc = [t \in Targets |-> ""]
    /\ pin = [p \in Pins |-> [open |-> TRUE, by |-> NoOne, review |-> FALSE]]
    /\ use = [o \in {Object[p] : p \in Pins} |-> NoOne]
    /\ lio = [t \in Targets |-> NoTarget]
    /\ drift = [pins |-> {}, leases |-> {}, lio |-> {}]   \* what others have changed
    /\ faults = 0

Go(t, there) == pc' = [pc EXCEPT ![t] = there]
Objects(t) == {Object[p] : p \in Roster[t]}
Needs(t) == CASE Kind[t] = "plain" -> {}
              [] Kind[t] = "policy" -> {"policy"}
              [] OTHER -> Sources

---------------------------------------------------------------------------
(* Verification.                                                           *)

\* Pin.verifyLocked and checkDescriptorLocked: the retained file, its name
\* and the lent descriptor are still one object.  A failure is sticky.
PinHolds(p) == pin[p].open /\ ~pin[p].review /\ p \notin drift.pins
Seen(ps) == [p \in Pins |-> [pin[p] EXCEPT
    !.review = @ \/ (p \in ps /\ p \in drift.pins /\ pin[p].open)]]

LeasesHold(t) == drift.leases \cap own[t].has = {}

\* checkInputs: the use claim, the leases and every pin of the roster.
Inputs(t) ==
    /\ \A o \in Objects(t) : use[o] = t
    /\ LeasesHold(t)
    /\ \A p \in Roster[t] : pin[p].by = t /\ PinHolds(p)

\* lioBackend.running: topology, attributes and credentials as installed.
Running(t) == lio[t].has = "lun" /\ lio[t].on /\ t \notin drift.lio

---------------------------------------------------------------------------
(* Admission: newWritableOwner, newPolicyBoundWritableOwner,               *)
(* newCredentialBoundWritableOwner and newTargetWritableOwner.             *)

RollbackKeepsPins(t, pins) ==
    /\ pin' = pins
    /\ use' = [o \in DOMAIN use |-> IF use[o] = t THEN NoOne ELSE use[o]]
    /\ own' = [own EXCEPT ![t] = [Fresh EXCEPT !.rounds = own[t].rounds]]
    /\ Go(t, "")

\* A failed admission returns every claim and consumes nothing of the caller.
Rollback(t, pins) ==
    /\ pin' = [p \in Pins |-> [pins[p] EXCEPT !.by = IF @ = t THEN NoOne ELSE @]]
    /\ use' = [o \in DOMAIN use |-> IF use[o] = t THEN NoOne ELSE use[o]]
    /\ own' = [own EXCEPT ![t] = [Fresh EXCEPT !.rounds = own[t].rounds]]
    /\ Go(t, "")

\* Acquire the leases the constructor needs, against this revision.
Admit(t) ==
    /\ pc[t] = "" /\ own[t].ph \in {"none", "closed"} /\ own[t].rounds < MaxRounds
    /\ Needs(t) \cap drift.leases = {}
    /\ \A p \in Roster[t] : pin[p].open
    /\ Cardinality(Objects(t)) = Cardinality(Roster[t])
    /\ own' = [own EXCEPT ![t] = [Fresh EXCEPT !.rounds = own[t].rounds + 1,
                                  !.has = Needs(t), !.files = Roster[t]]]
    /\ Go(t, "claim")
    /\ UNCHANGED <<pin, use, lio, drift, faults>>

\* Claim the next pin; a busy, drifted or closed one undoes the admission.
Claim(t) ==
    /\ pc[t] = "claim"
    /\ LET todo == {p \in Roster[t] : pin[p].by # t}
           p == Min(todo)
       IN IF todo = {}
          THEN Go(t, "use") /\ UNCHANGED <<own, pin, use>>
          ELSE IF pin[p].by = NoOne /\ PinHolds(p) /\ (Kind[t] # "target" => LeasesHold(t))
          THEN pin' = [pin EXCEPT ![p].by = t] /\ UNCHANGED <<own, pc, use>>
          ELSE Rollback(t, IF pin[p].by = NoOne THEN Seen({p}) ELSE pin)
    /\ UNCHANGED <<lio, drift, faults>>

\* backingUseOwner.acquire publishes the whole roster or none of it.
AcquireUse(t) ==
    /\ pc[t] = "use"
    /\ IF (\A p \in Roster[t] : PinHolds(p)) /\ (\A o \in Objects(t) : use[o] = NoOne)
       THEN /\ use' = [o \in DOMAIN use |-> IF o \in Objects(t) THEN t ELSE use[o]]
            /\ Go(t, "check")
            /\ UNCHANGED <<own, pin>>
       ELSE Rollback(t, Seen(Roster[t]))
    /\ UNCHANGED <<lio, drift, faults>>

\* The complete target rechecks all its inputs before it is handed out.
Admitted(t) ==
    /\ pc[t] = "check"
    /\ IF Kind[t] = "target" => Inputs(t)
       THEN /\ own' = [own EXCEPT ![t].ph = "prepared"]
            /\ Go(t, "")
            /\ UNCHANGED <<pin, use>>
       ELSE Rollback(t, Seen(Roster[t]))
    /\ UNCHANGED <<lio, drift, faults>>

---------------------------------------------------------------------------
(* Life: start, observe, supervise, stop, close.                           *)

\* quarantineLocked: review at once, one stop if anything was started.
Quarantine(t) ==
    /\ own' = [own EXCEPT ![t].ph = "review", ![t].to = "review"]
    /\ Go(t, IF own[t].started THEN "stop" ELSE "release")
    /\ pin' = Seen(Roster[t])

\* start marks the owner started before the first kernel effect.
Start(t) ==
    /\ pc[t] = "" /\ own[t].ph = "prepared"
    /\ IF Inputs(t)
       THEN /\ own' = [own EXCEPT ![t].started = TRUE]
            /\ Go(t, IF "credentials" \in Needs(t) THEN "prepare" ELSE "bind")
            /\ UNCHANGED pin
       ELSE Quarantine(t)
    /\ UNCHANGED <<use, lio, drift, faults>>

\* Bundle.Prepare into lioBackend.PrepareCredentials; it may fail part way.
Prepare(t) ==
    /\ pc[t] = "prepare"
    /\ \/ /\ lio' = [lio EXCEPT ![t].has = "dir"]
          /\ Go(t, "bind")
          /\ UNCHANGED <<own, pin>>
       \/ /\ \E left \in {"", "dir"} : lio' = [lio EXCEPT ![t].has = left]
          /\ Quarantine(t)
    /\ UNCHANGED <<use, drift, faults>>

\* startTarget: storages over the lent descriptors, LUNs, grants, the portal,
\* then enable; everything before the enable is checked again.
Bind(t) ==
    /\ pc[t] = "bind"
    /\ \/ /\ t \notin drift.lio
          /\ lio' = [lio EXCEPT ![t].has = "lun", ![t].on = TRUE]
          /\ Go(t, "confirm")
          /\ UNCHANGED <<own, pin>>
       \/ /\ \E left \in {lio[t].has, "lun"}, on \in BOOLEAN :
                /\ on => left = "lun" /\ t \notin drift.lio
                /\ lio' = [lio EXCEPT ![t].has = left, ![t].on = on]
          /\ Quarantine(t)
    /\ UNCHANGED <<use, drift, faults>>

Confirm(t) ==
    /\ pc[t] = "confirm"
    /\ IF Running(t) /\ Inputs(t)
       THEN /\ own' = [own EXCEPT ![t].ph = "active"]
            /\ Go(t, "")
            /\ UNCHANGED pin
       ELSE Quarantine(t)
    /\ UNCHANGED <<use, lio, drift, faults>>

\* observeLocked, by a caller or by the supervisor.
ObserveLocked(t) ==
    /\ IF Inputs(t) /\ (own[t].ph = "active" => Running(t))
       THEN UNCHANGED <<own, pc, pin>>
       ELSE Quarantine(t)
    /\ UNCHANGED <<use, lio, drift, faults>>

Observe(t) ==
    /\ pc[t] = "" /\ ~own[t].sup /\ own[t].ph \in {"prepared", "active"}
    /\ ObserveLocked(t)

\* stopLocked
StopLocked(t) ==
    /\ own' = [own EXCEPT ![t].to = "closed"]
    /\ Go(t, IF own[t].started THEN "stop" ELSE "release")
    /\ UNCHANGED <<pin, use, lio, drift, faults>>

Stop(t) ==
    /\ pc[t] = "" /\ ~own[t].sup /\ own[t].ph \in {"prepared", "active"}
    /\ StopLocked(t)

\* close is no implicit stop: only an owner that never started closes.
CloseOwner(t) ==
    /\ pc[t] = "" /\ ~own[t].sup /\ own[t].ph = "prepared" /\ ~own[t].started
    /\ StopLocked(t)

Supervise(t) ==
    /\ pc[t] = "" /\ own[t].ph = "active" /\ ~own[t].sup
    /\ own' = [own EXCEPT ![t].sup = TRUE]
    /\ UNCHANGED <<pc, pin, use, lio, drift, faults>>

Cancel(t) ==
    /\ own[t].sup /\ ~own[t].cancel
    /\ own' = [own EXCEPT ![t].cancel = TRUE]
    /\ UNCHANGED <<pc, pin, use, lio, drift, faults>>

SuperviseIgnoresCancel(t) ==
    /\ own[t].sup /\ pc[t] = "" /\ own[t].ph = "active"
    /\ ObserveLocked(t)

\* One turn of the loop: a cancellation stops, anything else is a full scan.
SuperviseTurn(t) ==
    /\ own[t].sup /\ pc[t] = "" /\ own[t].ph = "active"
    /\ IF own[t].cancel THEN StopLocked(t) ELSE ObserveLocked(t)

\* The loop returns once its stop or its scan failed or closed the owner.
Unsupervise(t) ==
    /\ own[t].sup /\ pc[t] = "" /\ own[t].ph # "active"
    /\ own' = [own EXCEPT ![t].sup = FALSE, ![t].cancel = FALSE]
    /\ UNCHANGED <<pc, pin, use, lio, drift, faults>>

---------------------------------------------------------------------------
(* Teardown.                                                               *)

StopFailsOpen(t) ==
    /\ pc[t] = "stop"
    /\ \E left \in {"", "dir", lio[t].has} :
          lio' = [lio EXCEPT ![t] = IF left = "" THEN NoTarget ELSE [@ EXCEPT !.has = left]]
    /\ Go(t, "release")
    /\ UNCHANGED <<own, pin, use, drift, faults>>

\* lioBackend.stop, tried once: entries as created, disabled only while idle,
\* every entry removed.  Any doubt ends the life in review, all claims kept.
StopBackend(t) ==
    /\ pc[t] = "stop"
    /\ \/ /\ t \notin drift.lio /\ ~(lio[t].on /\ lio[t].session)
          /\ lio' = [lio EXCEPT ![t] = NoTarget]
          /\ Go(t, "release")
          /\ UNCHANGED own
       \/ /\ \/ UNCHANGED lio
             \/ /\ t \notin drift.lio /\ ~(lio[t].on /\ lio[t].session)
                /\ \E left \in {"", "dir", lio[t].has} :
                      lio' = [lio EXCEPT ![t] = [NoTarget EXCEPT !.has = left]]
          /\ own' = [own EXCEPT ![t].ph = "review", ![t].to = ""]
          /\ Go(t, "")
    /\ UNCHANGED <<pin, use, drift, faults>>

Unclaim(ps) == [p \in Pins |-> IF p \in ps THEN [open |-> FALSE, by |-> NoOne, review |-> FALSE]
                               ELSE pin[p]]

\* releaseTargetLocked and releaseSourcesLocked: every data file, then every
\* pin, then policy, credentials and use; the first failure keeps the rest.
Release(t) ==
    /\ pc[t] = "release"
    /\ \/ /\ own' = [own EXCEPT ![t].ph = own[t].to, ![t].to = "", ![t].started = FALSE,
                                 ![t].has = {}, ![t].files = {}]
          /\ pin' = Unclaim(Roster[t])
          /\ use' = [o \in DOMAIN use |-> IF use[o] = t THEN NoOne ELSE use[o]]
       \/ /\ \/ \E p \in Roster[t] :        \* this file does not close
                /\ own' = [own EXCEPT ![t].ph = "review", ![t].to = "",
                                      ![t].files = {q \in Roster[t] : q >= p}]
                /\ UNCHANGED pin
             \/ \E p \in Roster[t] :        \* this pin does not
                /\ own' = [own EXCEPT ![t].ph = "review", ![t].to = "", ![t].files = {}]
                /\ pin' = Unclaim({q \in Roster[t] : q <= p})
             \/ \E kept \in {{"policy", "credentials"}, {"credentials"}, {}} :
                /\ own' = [own EXCEPT ![t].ph = "review", ![t].to = "", ![t].files = {},
                                      ![t].has = kept \cap Needs(t)]
                /\ pin' = Unclaim(Roster[t])
          /\ UNCHANGED use
    /\ Go(t, "")
    /\ UNCHANGED <<lio, drift, faults>>

---------------------------------------------------------------------------
(* Pins and the rest of the world.                                         *)

\* OpenFromMountedLease, and Pin.Close, which is busy under a consumer.
OpenPin(p) ==
    /\ ~pin[p].open /\ p \notin drift.pins
    /\ pin' = [pin EXCEPT ![p] = [open |-> TRUE, by |-> NoOne, review |-> FALSE]]
    /\ UNCHANGED <<own, pc, use, lio, drift, faults>>

ClosePin(p) ==
    /\ pin[p].open /\ pin[p].by = NoOne
    /\ pin' = Unclaim({p})
    /\ UNCHANGED <<own, pc, use, lio, drift, faults>>

\* An initiator logs in to an enabled target, or out (the kernel's own state).
Session(t) ==
    /\ lio[t].on
    /\ lio' = [lio EXCEPT ![t].session = ~@]
    /\ UNCHANGED <<own, pc, pin, use, drift, faults>>

\* Somebody replaces a backing file, edits a source or rearranges configfs;
\* a file may be put back.
Meddle ==
    /\ \/ /\ faults < MaxFaults
          /\ \/ \E p \in Pins : drift' = [drift EXCEPT !.pins = @ \cup {p}]
             \/ \E l \in Sources : drift' = [drift EXCEPT !.leases = @ \cup {l}]
             \/ \E t \in Targets : lio[t].has # "" /\ drift' = [drift EXCEPT !.lio = @ \cup {t}]
          /\ faults' = faults + 1
       \/ /\ \E p \in drift.pins : drift' = [drift EXCEPT !.pins = @ \ {p}]
          /\ UNCHANGED faults
    /\ UNCHANGED <<own, pc, pin, use, lio>>

Admission(t) == Claim(t) \/ AcquireUse(t) \/ Admitted(t)
Calls(t) ==
    Admission(t) \/ Prepare(t) \/ Bind(t) \/ Confirm(t) \/ StopBackend(t) \/ Release(t)

Next ==
    \/ \E t \in Targets :
        \/ Admit(t) \/ Calls(t) \/ Start(t) \/ Observe(t) \/ Stop(t) \/ CloseOwner(t)
        \/ Supervise(t) \/ Cancel(t) \/ SuperviseTurn(t) \/ Unsupervise(t) \/ Session(t)
    \/ \E p \in Pins : OpenPin(p) \/ ClosePin(p)
    \/ Meddle

Spec == Init /\ [][Next]_vars

\* A call under the mutex is bounded by its context and returns; an accepted
\* supervisor wakes every second until it returns.
Fairness == \A t \in Targets : WF_vars(Calls(t)) /\ WF_vars(SuperviseTurn(t))

LiveSpec == Spec /\ Fairness

---------------------------------------------------------------------------

Owners == [ph : {"none", "prepared", "active", "review", "closed"}, started : BOOLEAN,
           has : SUBSET Sources, files : SUBSET Pins, sup : BOOLEAN, cancel : BOOLEAN,
           to : {"", "review", "closed"}, rounds : 0..MaxRounds]
Entries == [has : {"", "dir", "lun"}, on : BOOLEAN, session : BOOLEAN]
Claims == [open : BOOLEAN, by : Targets \cup {NoOne}, review : BOOLEAN]

TypeOK ==
    /\ own \in [Targets -> Owners]
    /\ pc \in [Targets -> {"", "claim", "use", "check", "prepare", "bind", "confirm",
                           "stop", "release"}]
    /\ pin \in [Pins -> Claims]
    /\ use \in [{Object[p] : p \in Pins} -> Targets \cup {NoOne}]
    /\ lio \in [Targets -> Entries]
    /\ drift \in [pins : SUBSET Pins, leases : SUBSET Sources, lio : SUBSET Targets]
    /\ faults \in 0..MaxFaults

\* As long as configfs may hold anything of a target, its data descriptors,
\* pins, policy and credential leases and its use claim are all retained,
\* whatever failed on the way and in whatever order.  So no file is behind two
\* exports, not even through two mounts; and no target goes down under a session.
RetainedWhileBorrowed ==
    \A t \in Targets : lio[t].has # "" =>
        /\ lio[t].session => lio[t].on
        /\ own[t].has = Needs(t) /\ own[t].files = Roster[t]
        /\ \A p \in Roster[t] : pin[p].open /\ pin[p].by = t
        /\ \A o \in Objects(t) : use[o] = t

\* An admission that failed, at whatever step and against whatever rival,
\* leaves the caller's pins and the use table as if it had not been tried.
FailedAdmissionIsWhole ==
    \A t \in Targets : pc[t] = "" /\ own[t].ph = "none" =>
        /\ \A p \in Pins : pin[p].by # t
        /\ \A o \in DOMAIN use : use[o] # t

\* Once supervision is accepted, a cancelled request, a lost lease or a
\* rearranged target ends the active life: stopped and closed, or in review.
SupervisionEnds ==
    \A t \in Targets :
        own[t].sup /\ (own[t].cancel \/ ~LeasesHold(t) \/ t \in drift.lio) ~> own[t].ph # "active"

-----------------------------------------------------------------------------
(* The instance that is model-checked: a complete target over two files   *)
(* against a plain consumer of a third pin, which is another mount's name  *)
(* for the first file.                                                     *)

MCTargets == {"t", "u"}
MCKind == [t |-> "target", u |-> "plain"]
MCPins == 1..3
MCRoster == [t |-> {1, 2}, u |-> {3}]
MCObject == [p \in MCPins |-> IF p = 2 THEN "b" ELSE "a"]
=============================================================================
