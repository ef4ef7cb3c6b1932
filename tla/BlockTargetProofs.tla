------------------------- MODULE BlockTargetProofs -------------------------
(***************************************************************************)
(* The safety properties of BlockTarget for any consumers, kinds, rosters  *)
(* and pins, however the pins' objects coincide, and any number of faults  *)
(* and admissions; and, below, those of ProcessSet for any members.        *)
(***************************************************************************)
EXTENDS BlockTarget, WellFoundedInduction, TLAPS

Pinned(t) == {p \in Pins : pin[p].by = t}
Used(t) == {o \in {Object[p] : p \in Pins} : use[o] = t}

\* What belongs together of one consumer t: its owner w, the next call c, the
\* kernel's side l, and the pins ps and objects us it has claimed.
Held(t, w, ps, us) ==
    w.has = Needs(t) /\ w.files = Roster[t] /\ ps = Roster[t] /\ us = Objects(t)

Fits(t, w, c, l, ps, us) ==
    /\ ps \subseteq Roster[t] /\ us \subseteq Objects(t)
    /\ c = "" /\ w.ph \in {"none", "closed"} => ps = {} /\ us = {}
    /\ c \in {"claim", "use"} => w.has = Needs(t) /\ w.files = Roster[t] /\ us = {} /\ w.ph = "none"
    /\ c = "use" => ps = Roster[t]
    /\ c \in {"check", "prepare", "bind", "confirm", "stop", "release"} \/ w.ph \in {"prepared", "active"} =>
          Held(t, w, ps, us)
    /\ c \in {"prepare", "bind", "confirm", "stop"} \/ (c = "" /\ w.ph = "active") => w.started
    /\ c \in {"stop", "release"} => w.to # ""
    /\ l.has # "" => /\ Held(t, w, ps, us)
                     /\ c \in {"bind", "confirm", "stop"} \/ (c = "" /\ w.ph \in {"active", "review"})
    /\ l.session => l.on
    /\ l.on => l.has = "lun" /\ c \notin {"prepare", "bind"}

FitsNow(t) == Fits(t, own[t], pc[t], lio[t], Pinned(t), Used(t))

\* A claimed pin is open.
OpenInv == \A p \in Pins : pin[p].by # NoOne => pin[p].open

IInv == TypeOK /\ OpenInv /\ \A t \in Targets : FitsNow(t)

Calling == {"", "claim", "use", "check", "prepare", "bind", "confirm", "stop", "release"}
AllObjects == {Object[p] : p \in Pins}

-----------------------------------------------------------------------------
(* Facts used by several actions.                                          *)

\* A nonempty set of numbers has the smallest element Min stands for.
LEMMA MinIsMember ==
    ASSUME NEW S \in SUBSET Nat, S # {}
    PROVE  Min(S) \in S
<1> DEFINE less == OpToRel(<, Nat)
<1>1. \A x, y \in Nat : y < x => <<y, x>> \in less
  BY DEF OpToRel
<1>2. IsWellFoundedOn(less, Nat)
  BY NatLessThanWellFounded, Zenon
<1> HIDE DEF less
<1>3. PICK x \in S : \A y \in S : ~(<<y, x>> \in less)
  BY <1>2, WFMin, Zenon
<1>4. ASSUME NEW y \in S PROVE x =< y
  <2>1. x \in Nat /\ y \in Nat
    OBVIOUS
  <2>2. ~(y < x)
    BY <1>1, <1>3, <2>1, Zenon
  <2> QED BY <2>1, <2>2
<1> QED BY <1>4, Zenon DEF Min

\* The parts of a state, by type.
LEMMA Parts ==
    ASSUME IInv, NEW t \in Targets
    PROVE  /\ own[t] \in Owners /\ pc[t] \in Calling /\ lio[t] \in Entries /\ FitsNow(t)
           /\ Needs(t) \in SUBSET Sources /\ Roster[t] \in SUBSET Pins /\ Objects(t) \in SUBSET AllObjects
           /\ t # NoOne
<1>1. Roster[t] \in SUBSET Pins /\ t # NoOne
  BY TargetAssumption DEF NoOne
<1>2. Needs(t) \in SUBSET Sources
  BY DEF Needs, Sources
<1> QED BY <1>1, <1>2, Zenon DEF IInv, TypeOK, Calling, Objects, AllObjects

\* A step of the consumer t leaves the claims of the others alone and its own
\* fitting.
LEMMA StepKeeps ==
    ASSUME IInv, NEW t \in Targets, NEW w \in Owners, NEW c \in Calling, NEW l \in Entries,
           own' = [own EXCEPT ![t] = w], pc' = [pc EXCEPT ![t] = c], lio' = [lio EXCEPT ![t] = l],
           pin' \in [Pins -> Claims], use' \in [AllObjects -> Targets \cup {NoOne}],
           UNCHANGED <<drift, faults>>, OpenInv',
           \A u \in Targets \ {t} : Pinned(u)' = Pinned(u) /\ Used(u)' = Used(u),
           NEW ps, NEW us, ps = Pinned(t)', us = Used(t)', Fits(t, w, c, l, ps, us)
    PROVE  IInv'
<1>1. TypeOK'
  BY Zenon DEF IInv, TypeOK, Calling, AllObjects
<1>2. own'[t] = w /\ pc'[t] = c /\ lio'[t] = l
  BY Zenon DEF IInv, TypeOK
<1>3. FitsNow(t)'
  BY <1>2 DEF FitsNow
<1>4. ASSUME NEW u \in Targets \ {t} PROVE FitsNow(u)'
  <2>1. own'[u] = own[u] /\ pc'[u] = pc[u] /\ lio'[u] = lio[u]
    BY <1>4, Zenon DEF IInv, TypeOK
  <2>2. Pinned(u)' = Pinned(u) /\ Used(u)' = Used(u)
    BY <1>4
  <2>3. Fits(u, own[u], pc[u], lio[u], Pinned(u), Used(u))
    BY <1>4 DEF IInv, FitsNow
  <2> QED BY <2>1, <2>2, <2>3 DEF FitsNow
<1> QED BY <1>1, <1>3, <1>4 DEF IInv

\* Verification marks a pin for review and changes nobody's claim on it.
LEMMA SeenChangesNoClaim ==
    ASSUME IInv, NEW ps
    PROVE  /\ Seen(ps) \in [Pins -> Claims]
           /\ \A p \in Pins : Seen(ps)[p].by = pin[p].by /\ Seen(ps)[p].open = pin[p].open
<1>1. pin \in [Pins -> Claims] /\ drift.pins \in SUBSET Pins
  BY Zenon DEF IInv, TypeOK
<1>2. ASSUME NEW p \in Pins
      PROVE  /\ Seen(ps)[p] \in Claims /\ Seen(ps)[p].by = pin[p].by /\ Seen(ps)[p].open = pin[p].open
  <2>1. pin[p] \in Claims
    BY <1>1
  <2> DEFINE r == pin[p].review \/ (p \in ps /\ p \in drift.pins /\ pin[p].open)
  <2>2. r \in BOOLEAN
    OBVIOUS
  <2>3. Seen(ps)[p] = [pin[p] EXCEPT !.review = r]
    BY <2>1 DEF Seen, Claims
  <2> HIDE DEF r
  <2> QED BY <2>1, <2>2, <2>3 DEF Claims
<1>3. Seen(ps) = [p \in Pins |-> Seen(ps)[p]]
  BY DEF Seen
<1> QED BY <1>2, <1>3

\* A step that moves t and claims or returns nothing.
LEMMA QuietKeeps ==
    ASSUME IInv, NEW t \in Targets, NEW w \in Owners, NEW c \in Calling, NEW l \in Entries,
           own' = [own EXCEPT ![t] = w], pc' = [pc EXCEPT ![t] = c], lio' = [lio EXCEPT ![t] = l],
           pin' = pin \/ \E s : pin' = Seen(s), UNCHANGED <<use, drift, faults>>,
           Fits(t, w, c, l, Pinned(t), Used(t))
    PROVE  IInv'
<1>1. /\ pin' \in [Pins -> Claims]
      /\ \A p \in Pins : pin'[p].by = pin[p].by /\ pin'[p].open = pin[p].open
  <2>1. CASE pin' = pin
    BY <2>1, Zenon DEF IInv, TypeOK
  <2>2. CASE \E s : pin' = Seen(s)
    BY <2>2, SeenChangesNoClaim
  <2> QED BY <2>1, <2>2
<1>2. \A u \in Targets : Pinned(u)' = Pinned(u) /\ Used(u)' = Used(u)
  BY <1>1 DEF Pinned, Used
<1>3. OpenInv'
  BY <1>1 DEF IInv, OpenInv
<1>4. use' \in [AllObjects -> Targets \cup {NoOne}]
  BY Zenon DEF IInv, TypeOK, AllObjects
<1>5. PICK ps, us : ps = Pinned(t)' /\ us = Used(t)'
  OBVIOUS
<1>6. Fits(t, w, c, l, ps, us)
  BY <1>2, <1>5
<1> QED BY <1>1, <1>2, <1>3, <1>4, <1>5, <1>6, StepKeeps, Zenon

\* quarantineLocked keeps every claim, and goes straight to the release only when
\* nothing was started.
LEMMA QuarantineKeeps ==
    ASSUME IInv, NEW t \in Targets, NEW l \in Entries, lio' = [lio EXCEPT ![t] = l],
           Quarantine(t), UNCHANGED <<use, drift, faults>>,
           Held(t, own[t], Pinned(t), Used(t)),
           l.has # "" => own[t].started, l.on => l.has = "lun", l.session => l.on
    PROVE  IInv'
<1>1. own[t] \in Owners /\ pc[t] \in Calling /\ FitsNow(t) /\ own \in [Targets -> Owners]
  BY Parts, Zenon DEF IInv, TypeOK
<1>2. PICK w : w = [own[t] EXCEPT !.ph = "review", !.to = "review"]
  BY Zenon
<1>3. /\ w \in Owners /\ w.ph = "review" /\ w.to = "review" /\ w.started = own[t].started
      /\ w.has = own[t].has /\ w.files = own[t].files
  BY <1>1, <1>2, Zenon DEF Owners
<1>4. own' = [own EXCEPT ![t] = w]
  BY <1>1, <1>2, Zenon DEF Quarantine, Owners
<1>5. PICK c \in {"stop", "release"} : pc' = [pc EXCEPT ![t] = c] /\ (c = "stop" <=> own[t].started)
  BY Zenon DEF Quarantine, Go
<1>6. Held(t, w, Pinned(t), Used(t))
  BY <1>3, Zenon DEF Held
<1>7. Pinned(t) \subseteq Roster[t] /\ Used(t) \subseteq Objects(t)
  BY <1>1, Zenon DEF FitsNow, Fits
<1>8. Fits(t, w, c, l, Pinned(t), Used(t))
  BY <1>3, <1>5, <1>6, <1>7, Zenon DEF Fits
<1>9. \E s : pin' = Seen(s)
  BY Zenon DEF Quarantine
<1> QED BY <1>3, <1>4, <1>5, <1>8, <1>9, QuietKeeps, Zenon DEF Calling

-----------------------------------------------------------------------------
(* Admission.                                                              *)

\* A refused admission returns exactly the claims of its own consumer.
LEMMA RollbackKeeps ==
    ASSUME IInv, NEW t \in Targets, NEW pins, pins = pin \/ \E s : pins = Seen(s),
           Rollback(t, pins), UNCHANGED <<lio, drift, faults>>, pc[t] \in {"claim", "use", "check"}
    PROVE  IInv'
<1>1. /\ own[t] \in Owners /\ lio[t] \in Entries /\ FitsNow(t) /\ t # NoOne
      /\ own \in [Targets -> Owners] /\ pin \in [Pins -> Claims] /\ use \in [AllObjects -> Targets \cup {NoOne}]
      /\ lio \in [Targets -> Entries]
  BY Parts, Zenon DEF IInv, TypeOK, AllObjects
<1>2. /\ pins \in [Pins -> Claims]
      /\ \A p \in Pins : pins[p].by = pin[p].by /\ pins[p].open = pin[p].open
  BY <1>1, SeenChangesNoClaim
<1>3. /\ pin' \in [Pins -> Claims]
      /\ \A p \in Pins : /\ pin'[p].by = IF pin[p].by = t THEN NoOne ELSE pin[p].by
                         /\ pin'[p].open = pin[p].open
  <2>1. pin' = [p \in Pins |-> [pins[p] EXCEPT !.by = IF pins[p].by = t THEN NoOne ELSE pins[p].by]]
    BY <1>2, Zenon DEF Rollback, Claims
  <2>2. \A p \in Pins : pins[p] \in Claims
    BY <1>2
  <2> QED BY <1>2, <2>1, <2>2 DEF Claims
<1>4. /\ use' = [o \in AllObjects |-> IF use[o] = t THEN NoOne ELSE use[o]]
      /\ use' \in [AllObjects -> Targets \cup {NoOne}]
  BY <1>1, Zenon DEF Rollback
<1>5. /\ \A u \in Targets \ {t} : Pinned(u)' = Pinned(u) /\ Used(u)' = Used(u)
      /\ Pinned(t)' = {} /\ Used(t)' = {}
  <2>1. NoOne \notin Targets
    BY TargetAssumption DEF NoOne
  <2> QED BY <1>1, <1>3, <1>4, <2>1 DEF Pinned, Used, AllObjects
<1>6. OpenInv'
  BY <1>3 DEF IInv, OpenInv
<1>7. PICK w : w = [Fresh EXCEPT !.rounds = own[t].rounds]
  BY Zenon
<1>8. w \in Owners /\ w.ph = "none"
  BY <1>1, <1>7, Zenon DEF Fresh, Owners, Sources
<1>9. own' = [own EXCEPT ![t] = w] /\ pc' = [pc EXCEPT ![t] = ""] /\ lio' = [lio EXCEPT ![t] = lio[t]]
  BY <1>1, <1>7, Zenon DEF Rollback, Go
<1>10. lio[t].has = "" /\ (lio[t].session => lio[t].on) /\ (lio[t].on => lio[t].has = "lun")
  BY <1>1, Zenon DEF FitsNow, Fits
<1>11. Fits(t, w, "", lio[t], {}, {})
  BY <1>8, <1>10, Zenon DEF Fits
<1> QED BY <1>1, <1>3, <1>4, <1>5, <1>6, <1>8, <1>9, <1>11, StepKeeps, Zenon DEF Calling

\* Admission starts with nothing claimed and everything leased.
LEMMA AdmitKeeps ==
    ASSUME IInv, NEW t \in Targets, Admit(t)
    PROVE  IInv'
<1>1. /\ own[t] \in Owners /\ lio[t] \in Entries /\ FitsNow(t) /\ Needs(t) \in SUBSET Sources
      /\ Roster[t] \in SUBSET Pins /\ own \in [Targets -> Owners] /\ lio \in [Targets -> Entries]
  BY Parts, Zenon DEF IInv, TypeOK
<1>2. PICK w : w = [Fresh EXCEPT !.rounds = own[t].rounds + 1, !.has = Needs(t), !.files = Roster[t]]
  OBVIOUS
<1>3. own[t].rounds + 1 \in 0..MaxRounds
  <2>1. MaxRounds \in Nat
    BY TargetAssumption
  <2>2. own[t].rounds \in 0..MaxRounds /\ own[t].rounds < MaxRounds
    BY <1>1, Zenon DEF Admit, Owners
  <2> QED BY <2>1, <2>2
<1>4. w \in Owners /\ w.ph = "none" /\ w.has = Needs(t) /\ w.files = Roster[t]
  BY <1>1, <1>2, <1>3, Zenon DEF Fresh, Owners
<1>5. own' = [own EXCEPT ![t] = w] /\ pc' = [pc EXCEPT ![t] = "claim"] /\ lio' = [lio EXCEPT ![t] = lio[t]]
  BY <1>1, <1>2, Zenon DEF Admit, Go
<1>6. /\ Pinned(t) = {} /\ Used(t) = {}
      /\ lio[t].has = "" /\ (lio[t].session => lio[t].on) /\ (lio[t].on => lio[t].has = "lun")
  BY <1>1, Zenon DEF FitsNow, Fits, Admit
<1>7. Fits(t, w, "claim", lio[t], Pinned(t), Used(t))
  BY <1>4, <1>6, Zenon DEF Fits
<1>8. pin' = pin /\ UNCHANGED <<use, drift, faults>> /\ "claim" \in Calling
  BY Zenon DEF Admit, Calling
<1> QED BY <1>1, <1>4, <1>5, <1>7, <1>8, QuietKeeps, Zenon

\* A claim takes a pin nobody has.
LEMMA ClaimKeeps ==
    ASSUME IInv, NEW t \in Targets, Claim(t)
    PROVE  IInv'
<1> DEFINE todo == {p \in Roster[t] : pin[p].by # t}
           p == Min(todo)
<1>1. /\ own[t] \in Owners /\ lio[t] \in Entries /\ FitsNow(t) /\ Roster[t] \in SUBSET Pins /\ t # NoOne
      /\ own \in [Targets -> Owners] /\ lio \in [Targets -> Entries] /\ pin \in [Pins -> Claims]
      /\ use \in [AllObjects -> Targets \cup {NoOne}] /\ pc \in [Targets -> Calling]
      /\ pc[t] = "claim" /\ UNCHANGED <<lio, drift, faults>>
  BY Parts, Zenon DEF IInv, TypeOK, AllObjects, Calling, Claim
<1>2. CASE todo = {}
  <2>1. pc' = [pc EXCEPT ![t] = "use"] /\ UNCHANGED <<own, pin, use>>
    BY <1>2 DEF Claim, Go
  <2>2. Roster[t] \subseteq Pinned(t)
    BY <1>1, <1>2 DEF Pinned
  <2>3. Fits(t, own[t], "use", lio[t], Pinned(t), Used(t))
    BY <1>1, <2>2, Zenon DEF FitsNow, Fits
  <2>4. own' = [own EXCEPT ![t] = own[t]] /\ lio' = [lio EXCEPT ![t] = lio[t]]
    BY <1>1, <2>1
  <2>5. pin' = pin /\ UNCHANGED <<use, drift, faults>> /\ "use" \in Calling
    BY <1>1, <2>1, Zenon DEF Calling
  <2>6. own[t] \in Owners /\ lio[t] \in Entries
    BY <1>1
  <2> HIDE DEF todo, p
  <2> QED BY <2>1, <2>3, <2>4, <2>5, <2>6, QuietKeeps, Zenon
<1>3. CASE todo # {}
  <2>1. p \in todo /\ p \in Pins /\ p \in Roster[t]
    <3>1. todo \in SUBSET Nat
      BY <1>1, TargetAssumption, Zenon
    <3>2. Min(todo) \in todo
      BY <1>3, <3>1, MinIsMember
    <3> QED BY <1>1, <3>2
  <2>2. CASE Rollback(t, IF pin[p].by = NoOne THEN Seen({p}) ELSE pin)
    BY <1>1, <2>2, RollbackKeeps
  <2>3. CASE pin[p].by = NoOne /\ PinHolds(p) /\ pin' = [pin EXCEPT ![p].by = t] /\ UNCHANGED <<own, pc, use>>
    <3> HIDE DEF todo, p
    <3>1. pin[p] \in Claims /\ pin[p].open
      BY <1>1, <2>1, <2>3 DEF PinHolds
    <3>2. [pin[p] EXCEPT !.by = t] \in Claims
      BY <3>1 DEF Claims
    <3>3. pin' = [pin EXCEPT ![p] = [pin[p] EXCEPT !.by = t]]
      BY <2>3
    <3>4. pin' \in [Pins -> Claims]
      BY <1>1, <3>2, <3>3, Zenon
    <3>5. /\ pin'[p].by = t /\ pin'[p].open
          /\ \A q \in Pins \ {p} : pin'[q] = pin[q]
      BY <1>1, <2>1, <3>1, <3>3 DEF Claims
    <3>6. OpenInv'
      BY <3>5 DEF IInv, OpenInv
    <3>7. /\ \A u \in Targets \ {t} : Pinned(u)' = Pinned(u)
          /\ Pinned(t)' = Pinned(t) \cup {p} /\ \A u \in Targets : Used(u)' = Used(u)
      <4>1. NoOne \notin Targets
        BY TargetAssumption DEF NoOne
      <4> QED BY <2>1, <2>3, <3>5, <4>1 DEF Pinned, Used
    <3>8. PICK ps, us : ps = Pinned(t)' /\ us = Used(t)'
      OBVIOUS
    <3>9. Fits(t, own[t], "claim", lio[t], ps, us)
      BY <1>1, <2>1, <3>7, <3>8, Zenon DEF FitsNow, Fits
    <3>10. own' = [own EXCEPT ![t] = own[t]] /\ lio' = [lio EXCEPT ![t] = lio[t]] /\ pc' = [pc EXCEPT ![t] = "claim"]
      BY <1>1, <2>3
    <3> QED BY <1>1, <2>3, <3>4, <3>6, <3>7, <3>8, <3>9, <3>10, StepKeeps, Zenon DEF Calling
  <2> QED BY <1>3, <2>2, <2>3 DEF Claim
<1> QED BY <1>2, <1>3

\* backingUseOwner.acquire takes every object of the roster, all of them free.
LEMMA AcquireUseKeeps ==
    ASSUME IInv, NEW t \in Targets, AcquireUse(t)
    PROVE  IInv'
<1>1. /\ own[t] \in Owners /\ lio[t] \in Entries /\ FitsNow(t) /\ Objects(t) \in SUBSET AllObjects
      /\ own \in [Targets -> Owners] /\ lio \in [Targets -> Entries] /\ pin \in [Pins -> Claims]
      /\ use \in [AllObjects -> Targets \cup {NoOne}]
      /\ pc[t] = "use" /\ UNCHANGED <<lio, drift, faults>> /\ NoOne \notin Targets
  BY Parts, TargetAssumption, Zenon DEF IInv, TypeOK, AllObjects, AcquireUse, NoOne
<1>2. CASE Rollback(t, Seen(Roster[t]))
  BY <1>1, <1>2, RollbackKeeps
<1>3. CASE /\ \A o \in Objects(t) : use[o] = NoOne
           /\ use' = [o \in DOMAIN use |-> IF o \in Objects(t) THEN t ELSE use[o]]
           /\ Go(t, "check") /\ UNCHANGED <<own, pin>>
  <2>1. /\ use' \in [AllObjects -> Targets \cup {NoOne}]
        /\ \A o \in AllObjects : use'[o] = IF o \in Objects(t) THEN t ELSE use[o]
    BY <1>1, <1>3
  <2>2. \A u \in Targets : Pinned(u)' = Pinned(u)
    BY <1>3 DEF Pinned
  <2>3. \A u \in Targets \ {t} : Used(u)' = Used(u)
    BY <1>1, <1>3, <2>1 DEF Used, AllObjects
  <2>4. Used(t) = {}
    BY <1>1, Zenon DEF FitsNow, Fits
  <2>5. Used(t)' = Objects(t)
    BY <1>1, <2>1, <2>4 DEF Used, AllObjects
  <2>6. PICK ps, us : ps = Pinned(t)' /\ us = Used(t)'
    OBVIOUS
  <2>7. Fits(t, own[t], "check", lio[t], ps, us)
    BY <1>1, <2>2, <2>5, <2>6, Zenon DEF FitsNow, Fits, Held
  <2>8. OpenInv'
    BY <1>3 DEF IInv, OpenInv
  <2>9. /\ own' = [own EXCEPT ![t] = own[t]] /\ lio' = [lio EXCEPT ![t] = lio[t]]
        /\ pc' = [pc EXCEPT ![t] = "check"] /\ pin' \in [Pins -> Claims] /\ "check" \in Calling
    BY <1>1, <1>3 DEF Go, Calling
  <2> QED BY <1>1, <2>1, <2>2, <2>3, <2>6, <2>7, <2>8, <2>9, StepKeeps, Zenon
<1> QED BY <1>2, <1>3 DEF AcquireUse

\* Only a consumer that holds everything is admitted.
LEMMA AdmittedKeeps ==
    ASSUME IInv, NEW t \in Targets, Admitted(t)
    PROVE  IInv'
<1>1. /\ own[t] \in Owners /\ lio[t] \in Entries /\ FitsNow(t)
      /\ own \in [Targets -> Owners] /\ lio \in [Targets -> Entries]
      /\ pc[t] = "check" /\ UNCHANGED <<lio, drift, faults>>
  BY Parts, Zenon DEF IInv, TypeOK, Admitted
<1>2. CASE Rollback(t, Seen(Roster[t]))
  BY <1>1, <1>2, RollbackKeeps
<1>3. CASE own' = [own EXCEPT ![t].ph = "prepared"] /\ Go(t, "") /\ UNCHANGED <<pin, use>>
  <2>1. PICK w : w = [own[t] EXCEPT !.ph = "prepared"]
    BY Zenon
  <2>2. w \in Owners /\ w.ph = "prepared" /\ w.has = own[t].has /\ w.files = own[t].files
    BY <1>1, <2>1, Zenon DEF Owners
  <2>3. Fits(t, w, "", lio[t], Pinned(t), Used(t))
    BY <1>1, <2>2, Zenon DEF FitsNow, Fits, Held
  <2>4. /\ own' = [own EXCEPT ![t] = w] /\ lio' = [lio EXCEPT ![t] = lio[t]]
        /\ pc' = [pc EXCEPT ![t] = ""] /\ pin' = pin /\ UNCHANGED <<use, drift, faults>> /\ "" \in Calling
    BY <1>1, <1>3, <2>1, Zenon DEF Go, Calling
  <2> QED BY <1>1, <2>2, <2>3, <2>4, QuietKeeps, Zenon
<1> QED BY <1>2, <1>3, Zenon DEF Admitted

-----------------------------------------------------------------------------
(* Life.                                                                   *)

\* A start takes nothing new; it is marked before the first kernel effect.
LEMMA StartKeeps ==
    ASSUME IInv, NEW t \in Targets, Start(t)
    PROVE  IInv'
<1>1. /\ own[t] \in Owners /\ lio[t] \in Entries /\ FitsNow(t)
      /\ own \in [Targets -> Owners] /\ lio \in [Targets -> Entries]
      /\ pc[t] = "" /\ own[t].ph = "prepared" /\ UNCHANGED <<use, lio, drift, faults>>
      /\ lio' = [lio EXCEPT ![t] = lio[t]]
  BY Parts, Zenon DEF IInv, TypeOK, Start
<1>2. /\ Held(t, own[t], Pinned(t), Used(t)) /\ lio[t].has = ""
      /\ (lio[t].session => lio[t].on) /\ ~lio[t].on
  BY <1>1, Zenon DEF FitsNow, Fits
<1>3. CASE Quarantine(t)
  BY <1>1, <1>2, <1>3, QuarantineKeeps, Zenon
<1>4. CASE /\ own' = [own EXCEPT ![t].started = TRUE] /\ UNCHANGED pin
           /\ Go(t, IF "credentials" \in Needs(t) THEN "prepare" ELSE "bind")
  <2>1. PICK w : w = [own[t] EXCEPT !.started = TRUE]
    BY Zenon
  <2>2. w \in Owners /\ w.ph = "prepared" /\ w.has = own[t].has /\ w.files = own[t].files /\ w.started = TRUE
    BY <1>1, <2>1, Zenon DEF Owners
  <2>3. PICK c \in {"prepare", "bind"} : pc' = [pc EXCEPT ![t] = c]
    BY <1>4, Zenon DEF Go
  <2>4. Fits(t, w, c, lio[t], Pinned(t), Used(t))
    BY <1>1, <1>2, <2>2, Zenon DEF FitsNow, Fits, Held
  <2>5. own' = [own EXCEPT ![t] = w] /\ pin' = pin /\ c \in Calling
    BY <1>1, <1>4, <2>1, Zenon DEF Calling
  <2> QED BY <1>1, <2>2, <2>3, <2>4, <2>5, QuietKeeps, Zenon
<1> QED BY <1>3, <1>4, Zenon DEF Start

\* What the kernel is given is given by a started consumer that holds everything.
LEMMA KernelKeeps ==
    ASSUME IInv, NEW t \in Targets, Prepare(t) \/ Bind(t)
    PROVE  IInv'
<1>1. /\ own[t] \in Owners /\ lio[t] \in Entries /\ FitsNow(t)
      /\ own \in [Targets -> Owners] /\ lio \in [Targets -> Entries]
      /\ pc[t] \in {"prepare", "bind"} /\ UNCHANGED <<use, drift, faults>>
  BY Parts, Zenon DEF IInv, TypeOK, Prepare, Bind
<1>2. /\ Held(t, own[t], Pinned(t), Used(t)) /\ own[t].started
      /\ (lio[t].session => lio[t].on) /\ ~lio[t].on
  BY <1>1, Zenon DEF FitsNow, Fits
<1>3. PICK l \in Entries :
          /\ lio' = [lio EXCEPT ![t] = l] /\ (l.on => l.has = "lun") /\ (l.session => l.on)
          /\ \/ Quarantine(t)
             \/ /\ UNCHANGED <<own, pin>>
                /\ \/ Go(t, "bind") /\ ~l.on
                   \/ Go(t, "confirm")
  <2>1. ASSUME NEW left \in {"", "dir", "lun"}, NEW on \in BOOLEAN, on => left = "lun",
               lio' = [lio EXCEPT ![t].has = left, ![t].on = on]
        PROVE  \E l \in Entries : /\ lio' = [lio EXCEPT ![t] = l] /\ l.on = on
                                  /\ (l.on => l.has = "lun") /\ (l.session => l.on)
    <3>1. PICK l : l = [lio[t] EXCEPT !.has = left, !.on = on]
      BY Zenon
    <3>2. l \in Entries /\ l.has = left /\ l.on = on /\ l.session = lio[t].session
      BY <1>1, <3>1, Zenon DEF Entries
    <3>3. lio' = [lio EXCEPT ![t] = l]
      BY <1>1, <2>1, <3>1, Zenon DEF Entries
    <3> QED BY <1>2, <2>1, <3>2, <3>3, Zenon
  <2>2. ASSUME NEW left \in {"", "dir"}, lio' = [lio EXCEPT ![t].has = left]
        PROVE  \E l \in Entries : /\ lio' = [lio EXCEPT ![t] = l] /\ ~l.on
                                  /\ (l.on => l.has = "lun") /\ (l.session => l.on)
    <3>1. PICK l : l = [lio[t] EXCEPT !.has = left]
      BY Zenon
    <3>2. l \in Entries /\ l.on = lio[t].on /\ l.session = lio[t].session
      BY <1>1, <3>1, Zenon DEF Entries
    <3>3. lio' = [lio EXCEPT ![t] = l]
      BY <1>1, <2>2, <3>1, Zenon DEF Entries
    <3> QED BY <1>2, <3>2, <3>3, Zenon
  <2>3. CASE Prepare(t)
    BY <2>2, <2>3, Zenon DEF Prepare
  <2>4. CASE Bind(t)
    <3>1. lio[t].has \in {"", "dir", "lun"}
      BY <1>1, Zenon DEF Entries
    <3>2. CASE lio' = [lio EXCEPT ![t].has = "lun", ![t].on = TRUE] /\ Go(t, "confirm") /\ UNCHANGED <<own, pin>>
      BY <2>1, <3>2, Zenon
    <3>3. CASE /\ \E left \in {lio[t].has, "lun"}, on \in BOOLEAN :
                     /\ on => left = "lun"
                     /\ lio' = [lio EXCEPT ![t].has = left, ![t].on = on]
               /\ Quarantine(t)
      BY <2>1, <3>1, <3>3, Zenon
    <3> QED BY <2>4, <3>2, <3>3 DEF Bind
  <2> QED BY <2>3, <2>4
<1>4. CASE Quarantine(t)
  BY <1>1, <1>2, <1>3, <1>4, QuarantineKeeps, Zenon
<1>5. ASSUME NEW c \in {"bind", "confirm"}, pc' = [pc EXCEPT ![t] = c], c = "bind" => ~l.on, UNCHANGED <<own, pin>>
      PROVE  IInv'
  <2>1. Fits(t, own[t], c, l, Pinned(t), Used(t))
    BY <1>1, <1>2, <1>3, <1>5, Zenon DEF FitsNow, Fits
  <2>2. own' = [own EXCEPT ![t] = own[t]] /\ pin' = pin /\ c \in Calling
    BY <1>1, <1>5, Zenon DEF Calling
  <2> QED BY <1>1, <1>3, <1>5, <2>1, <2>2, QuietKeeps, Zenon
<1> QED BY <1>3, <1>4, <1>5 DEF Go

\* Confirm and observeLocked keep the consumer as it is or quarantine it.
LEMMA ConfirmKeeps ==
    ASSUME IInv, NEW t \in Targets,
           Confirm(t) \/ (pc[t] = "" /\ own[t].ph \in {"prepared", "active"} /\ ObserveLocked(t))
    PROVE  IInv'
<1>1. /\ own[t] \in Owners /\ lio[t] \in Entries /\ FitsNow(t)
      /\ own \in [Targets -> Owners] /\ lio \in [Targets -> Entries] /\ pc \in [Targets -> Calling]
      /\ UNCHANGED <<use, lio, drift, faults>> /\ lio' = [lio EXCEPT ![t] = lio[t]]
  BY Parts, Zenon DEF IInv, TypeOK, Confirm, ObserveLocked, Calling
<1>2. /\ Held(t, own[t], Pinned(t), Used(t)) /\ (lio[t].has # "" => own[t].started)
      /\ (lio[t].session => lio[t].on) /\ (lio[t].on => lio[t].has = "lun")
  BY <1>1, Zenon DEF FitsNow, Fits, Confirm
<1>3. CASE Quarantine(t)
  BY <1>1, <1>2, <1>3, QuarantineKeeps, Zenon
<1>4. CASE UNCHANGED <<own, pc, pin>>
  <2>1. /\ own' = [own EXCEPT ![t] = own[t]] /\ pc' = [pc EXCEPT ![t] = pc[t]] /\ pin' = pin
        /\ pc[t] \in Calling
    BY <1>1, <1>4, Zenon
  <2> QED BY <1>1, <2>1, QuietKeeps, Zenon DEF FitsNow
<1>5. CASE Confirm(t) /\ own' = [own EXCEPT ![t].ph = "active"] /\ Go(t, "") /\ UNCHANGED pin
  <2>1. PICK w : w = [own[t] EXCEPT !.ph = "active"]
    BY Zenon
  <2>2. w \in Owners /\ w.ph = "active" /\ w.has = own[t].has /\ w.files = own[t].files /\ w.started = own[t].started
    BY <1>1, <2>1, Zenon DEF Owners
  <2>3. own[t].started
    BY <1>1, <1>5, Zenon DEF FitsNow, Fits, Confirm
  <2>4. Fits(t, w, "", lio[t], Pinned(t), Used(t))
    BY <1>1, <1>2, <2>2, <2>3, Zenon DEF FitsNow, Fits, Held
  <2>5. own' = [own EXCEPT ![t] = w] /\ pc' = [pc EXCEPT ![t] = ""] /\ pin' = pin /\ "" \in Calling
    BY <1>1, <1>5, <2>1, Zenon DEF Go, Calling
  <2> QED BY <1>1, <2>2, <2>4, <2>5, QuietKeeps, Zenon
<1> QED BY <1>3, <1>4, <1>5, Zenon DEF Confirm, ObserveLocked

\* A stop is asked for by a consumer that holds everything.
LEMMA StopLockedKeeps ==
    ASSUME IInv, NEW t \in Targets, pc[t] = "", own[t].ph \in {"prepared", "active"}, StopLocked(t)
    PROVE  IInv'
<1>1. /\ own[t] \in Owners /\ lio[t] \in Entries /\ FitsNow(t)
      /\ own \in [Targets -> Owners] /\ lio \in [Targets -> Entries]
      /\ lio' = [lio EXCEPT ![t] = lio[t]] /\ pin' = pin /\ UNCHANGED <<use, drift, faults>>
  BY Parts, Zenon DEF IInv, TypeOK, StopLocked
<1>2. PICK w : w = [own[t] EXCEPT !.to = "closed"]
  BY Zenon
<1>3. /\ w \in Owners /\ w.to = "closed" /\ w.ph = own[t].ph /\ w.started = own[t].started
      /\ w.has = own[t].has /\ w.files = own[t].files
  BY <1>1, <1>2, Zenon DEF Owners
<1>4. own' = [own EXCEPT ![t] = w]
  BY <1>1, <1>2, Zenon DEF StopLocked
<1>5. PICK c \in {"stop", "release"} : pc' = [pc EXCEPT ![t] = c] /\ (c = "stop" <=> own[t].started)
  BY Zenon DEF StopLocked, Go
<1>6. Fits(t, w, c, lio[t], Pinned(t), Used(t))
  BY <1>1, <1>3, <1>5, Zenon DEF FitsNow, Fits, Held
<1>7. c \in Calling
  BY <1>5, Zenon DEF Calling
<1> QED BY <1>1, <1>3, <1>4, <1>5, <1>6, <1>7, QuietKeeps, Zenon

\* Supervision is accepted, cancelled and returned from without touching a claim.
LEMMA SupervisionKeeps ==
    ASSUME IInv, NEW t \in Targets, Supervise(t) \/ Cancel(t) \/ Unsupervise(t)
    PROVE  IInv'
<1>1. /\ own[t] \in Owners /\ lio[t] \in Entries /\ pc[t] \in Calling /\ FitsNow(t)
      /\ own \in [Targets -> Owners] /\ lio \in [Targets -> Entries] /\ pc \in [Targets -> Calling]
  BY Parts, Zenon DEF IInv, TypeOK, Calling
<1>2. /\ lio' = [lio EXCEPT ![t] = lio[t]] /\ pc' = [pc EXCEPT ![t] = pc[t]]
      /\ pin' = pin /\ UNCHANGED <<use, drift, faults>>
  BY <1>1, Zenon DEF Supervise, Cancel, Unsupervise
<1>3. PICK w : /\ own' = [own EXCEPT ![t] = w]
               /\ \/ w = [own[t] EXCEPT !.sup = TRUE]
                  \/ w = [own[t] EXCEPT !.cancel = TRUE]
                  \/ w = [own[t] EXCEPT !.sup = FALSE, !.cancel = FALSE]
  <2>1. CASE Supervise(t)
    BY <1>1, <2>1, Zenon DEF Supervise
  <2>2. CASE Cancel(t)
    BY <1>1, <2>2, Zenon DEF Cancel
  <2>3. CASE Unsupervise(t)
    BY <1>1, <2>3, Zenon DEF Unsupervise, Owners
  <2> QED BY <2>1, <2>2, <2>3
<1>4. /\ w \in Owners /\ w.to = own[t].to /\ w.ph = own[t].ph /\ w.started = own[t].started
      /\ w.has = own[t].has /\ w.files = own[t].files
  BY <1>1, <1>3, Zenon DEF Owners
<1>5. Fits(t, w, pc[t], lio[t], Pinned(t), Used(t))
  BY <1>1, <1>4, Zenon DEF FitsNow, Fits, Held
<1> QED BY <1>1, <1>2, <1>3, <1>4, <1>5, QuietKeeps, Zenon

-----------------------------------------------------------------------------
(* Teardown.                                                               *)

\* A stop that failed keeps every claim, one that succeeded leaves no entry.
LEMMA StopBackendKeeps ==
    ASSUME IInv, NEW t \in Targets, StopBackend(t)
    PROVE  IInv'
<1>1. /\ own[t] \in Owners /\ lio[t] \in Entries /\ FitsNow(t) /\ pc[t] = "stop"
      /\ own \in [Targets -> Owners] /\ lio \in [Targets -> Entries]
      /\ pin' = pin /\ UNCHANGED <<use, drift, faults>>
  BY Parts, Zenon DEF IInv, TypeOK, StopBackend
<1>2. CASE /\ lio' = [lio EXCEPT ![t] = NoTarget] /\ Go(t, "release") /\ UNCHANGED own
  <2>1. NoTarget \in Entries /\ NoTarget.has = "" /\ ~NoTarget.on /\ ~NoTarget.session
    BY DEF NoTarget, Entries
  <2>2. Fits(t, own[t], "release", NoTarget, Pinned(t), Used(t))
    BY <1>1, <2>1, Zenon DEF FitsNow, Fits, Held
  <2>3. own' = [own EXCEPT ![t] = own[t]] /\ pc' = [pc EXCEPT ![t] = "release"] /\ "release" \in Calling
    BY <1>1, <1>2 DEF Go, Calling
  <2> QED BY <1>1, <1>2, <2>1, <2>2, <2>3, QuietKeeps, Zenon
<1>3. ASSUME NEW l \in Entries, lio' = [lio EXCEPT ![t] = l], l.on => l.has = "lun", l.session => l.on,
             own' = [own EXCEPT ![t].ph = "review", ![t].to = ""], Go(t, "")
      PROVE  IInv'
  <2>1. PICK w : w = [own[t] EXCEPT !.ph = "review", !.to = ""]
    OBVIOUS
  <2>2. /\ w \in Owners /\ w.ph = "review" /\ w.has = own[t].has /\ w.files = own[t].files
    BY <1>1, <2>1, Zenon DEF Owners
  <2>3. /\ own' = [own EXCEPT ![t] = w] /\ pc' = [pc EXCEPT ![t] = ""] /\ "" \in Calling
    BY <1>1, <1>3, <2>1, Zenon DEF Go, Calling, Owners
  <2>4. Fits(t, w, "", l, Pinned(t), Used(t))
    BY <1>1, <1>3, <2>2, Zenon DEF FitsNow, Fits, Held
  <2> QED BY <1>1, <1>3, <2>2, <2>3, <2>4, QuietKeeps, Zenon
<1>4. CASE /\ UNCHANGED lio /\ own' = [own EXCEPT ![t].ph = "review", ![t].to = ""] /\ Go(t, "")
  <2>1. /\ lio' = [lio EXCEPT ![t] = lio[t]] /\ (lio[t].on => lio[t].has = "lun")
        /\ (lio[t].session => lio[t].on)
    BY <1>1, <1>4, Zenon DEF FitsNow, Fits
  <2> QED BY <1>1, <1>3, <1>4, <2>1, Zenon
<1>5. CASE /\ \E left \in {"", "dir", lio[t].has} : lio' = [lio EXCEPT ![t] = [NoTarget EXCEPT !.has = left]]
           /\ own' = [own EXCEPT ![t].ph = "review", ![t].to = ""] /\ Go(t, "")
  <2>1. PICK left \in {"", "dir", "lun"} : lio' = [lio EXCEPT ![t] = [NoTarget EXCEPT !.has = left]]
    BY <1>1, <1>5, Zenon DEF Entries
  <2>2. PICK l : l = [NoTarget EXCEPT !.has = left]
    BY Zenon
  <2>3. l \in Entries /\ ~l.on /\ ~l.session
    BY <2>2, Zenon DEF NoTarget, Entries
  <2>4. lio' = [lio EXCEPT ![t] = l]
    BY <2>1, <2>2, Zenon
  <2> QED BY <1>3, <1>5, <2>3, <2>4, Zenon
<1> QED BY <1>2, <1>4, <1>5, Zenon DEF StopBackend

\* What a release lets go of, it lets go of once the kernel holds nothing.
LEMMA ReleaseKeeps ==
    ASSUME IInv, NEW t \in Targets, Release(t)
    PROVE  IInv'
<1>1. /\ own[t] \in Owners /\ lio[t] \in Entries /\ FitsNow(t) /\ pc[t] = "release"
      /\ own \in [Targets -> Owners] /\ lio \in [Targets -> Entries] /\ pin \in [Pins -> Claims]
      /\ use \in [AllObjects -> Targets \cup {NoOne}] /\ Roster[t] \in SUBSET Pins /\ t # NoOne
      /\ pc' = [pc EXCEPT ![t] = ""] /\ UNCHANGED <<drift, faults>> /\ NoOne \notin Targets
      /\ lio' = [lio EXCEPT ![t] = lio[t]] /\ "" \in Calling /\ Needs(t) \in SUBSET Sources
  BY Parts, TargetAssumption, Zenon DEF IInv, TypeOK, AllObjects, Release, Go, Calling, NoOne
<1>2. /\ Held(t, own[t], Pinned(t), Used(t)) /\ lio[t].has = "" /\ ~lio[t].on /\ ~lio[t].session
      /\ own[t].to \in {"review", "closed"}
  BY <1>1, Zenon DEF FitsNow, Fits, Owners
<1>3. \A p \in Roster[t] : pin[p].by = t
  BY <1>1, <1>2, Zenon DEF Held, Pinned
<1>4. PICK gone \in SUBSET Roster[t] : pin' = Unclaim(gone)
  <2>1. pin = Unclaim({})
    BY <1>1, Zenon DEF Unclaim
  <2>2. \A p \in Roster[t] : {q \in Roster[t] : q <= p} \in SUBSET Roster[t]
    OBVIOUS
  <2> QED BY <2>1, <2>2, Zenon DEF Release
<1>5. /\ pin' \in [Pins -> Claims]
      /\ \A p \in gone : pin'[p].by = NoOne
      /\ \A p \in Pins \ gone : pin'[p] = pin[p]
  BY <1>1, <1>4, Zenon DEF Unclaim, Claims
<1>6. OpenInv'
  BY <1>5 DEF IInv, OpenInv
<1>7. \A u \in Targets \ {t} : Pinned(u)' = Pinned(u)
  BY <1>1, <1>3, <1>4, <1>5, Zenon DEF Pinned
<1>8. Pinned(t)' \subseteq Roster[t]
  BY <1>1, <1>2, <1>5, Zenon DEF Pinned, Held
<1>9. ASSUME NEW w \in Owners, own' = [own EXCEPT ![t] = w], w.ph \in {"review", "closed"},
             use' \in [AllObjects -> Targets \cup {NoOne}],
             \A u \in Targets \ {t} : Used(u)' = Used(u), Used(t)' \subseteq Objects(t),
             w.ph = "closed" => Pinned(t)' = {} /\ Used(t)' = {}
      PROVE  IInv'
  <2>1. PICK ps, us : ps = Pinned(t)' /\ us = Used(t)'
    OBVIOUS
  <2>2. Fits(t, w, "", lio[t], ps, us)
    BY <1>2, <1>8, <1>9, <2>1, Zenon DEF Fits
  <2> QED BY <1>1, <1>5, <1>6, <1>7, <1>9, <2>1, <2>2, StepKeeps, Zenon
<1>10. CASE /\ own' = [own EXCEPT ![t].ph = own[t].to, ![t].to = "", ![t].started = FALSE,
                                  ![t].has = {}, ![t].files = {}]
            /\ pin' = Unclaim(Roster[t])
            /\ use' = [o \in DOMAIN use |-> IF use[o] = t THEN NoOne ELSE use[o]]
  <2>1. PICK w : w = [own[t] EXCEPT !.ph = own[t].to, !.to = "", !.started = FALSE, !.has = {}, !.files = {}]
    OBVIOUS
  <2>2. w \in Owners /\ w.ph \in {"review", "closed"}
    BY <1>1, <1>2, <2>1, Zenon DEF Owners
  <2>3. own' = [own EXCEPT ![t] = w]
    BY <1>1, <1>10, <2>1, Zenon DEF Owners
  <2>4. /\ use' \in [AllObjects -> Targets \cup {NoOne}]
        /\ \A o \in AllObjects : use'[o] = IF use[o] = t THEN NoOne ELSE use[o]
    BY <1>1, <1>10, Zenon
  <2>5. /\ \A u \in Targets \ {t} : Used(u)' = Used(u)
        /\ Used(t)' = {}
    BY <1>1, <2>4, Zenon DEF Used, AllObjects
  <2>6. \A p \in Pins : pin'[p].by # t
    BY <1>1, <1>2, <1>10, Zenon DEF Unclaim, Pinned, Held
  <2>7. Pinned(t)' = {}
    BY <2>6 DEF Pinned
  <2> QED BY <1>9, <2>2, <2>3, <2>4, <2>5, <2>7, Zenon
<1>11. ASSUME NEW fs \in SUBSET Pins, NEW hs \in SUBSET Sources, UNCHANGED use,
              \/ own' = [own EXCEPT ![t].ph = "review", ![t].to = "", ![t].files = fs]
              \/ own' = [own EXCEPT ![t].ph = "review", ![t].to = "", ![t].files = fs, ![t].has = hs]
       PROVE  IInv'
  <2>1. PICK w : /\ own' = [own EXCEPT ![t] = w]
                 /\ \/ w = [own[t] EXCEPT !.ph = "review", !.to = "", !.files = fs]
                    \/ w = [own[t] EXCEPT !.ph = "review", !.to = "", !.files = fs, !.has = hs]
    BY <1>1, <1>11, Zenon DEF Owners
  <2>2. w \in Owners /\ w.ph = "review"
    BY <1>1, <2>1, Zenon DEF Owners
  <2>3. \A u \in Targets : Used(u)' = Used(u)
    BY <1>11, Zenon DEF Used
  <2>4. Used(t)' \subseteq Objects(t)
    BY <1>2, <2>3, Zenon DEF Held
  <2> QED BY <1>1, <1>9, <1>11, <2>1, <2>2, <2>3, <2>4, Zenon
<1>12. ASSUME NEW p \in Roster[t] PROVE {q \in Roster[t] : q >= p} \in SUBSET Pins
  BY <1>1, Zenon
<1>13. /\ {"policy", "credentials"} \cap Needs(t) \in SUBSET Sources
       /\ {"credentials"} \cap Needs(t) \in SUBSET Sources
       /\ {} \cap Needs(t) \in SUBSET Sources
  BY <1>1, Zenon
<1>14. CASE UNCHANGED use /\ pin' = pin /\ \E p \in Roster[t] :
            own' = [own EXCEPT ![t].ph = "review", ![t].to = "", ![t].files = {q \in Roster[t] : q >= p}]
  BY <1>11, <1>12, <1>13, <1>14, Zenon
<1>15. CASE UNCHANGED use /\ own' = [own EXCEPT ![t].ph = "review", ![t].to = "", ![t].files = {}]
  BY <1>11, <1>13, <1>15, Zenon
<1>16. CASE UNCHANGED use /\ \E kept \in {{"policy", "credentials"}, {"credentials"}, {}} :
            own' = [own EXCEPT ![t].ph = "review", ![t].to = "", ![t].files = {}, ![t].has = kept \cap Needs(t)]
  <2>1. PICK kept \in {{"policy", "credentials"}, {"credentials"}, {}} :
            own' = [own EXCEPT ![t].ph = "review", ![t].to = "", ![t].files = {}, ![t].has = kept \cap Needs(t)]
    BY <1>16, Zenon
  <2>2. PICK hs : hs = kept \cap Needs(t)
    BY Zenon
  <2>3. hs \in SUBSET Sources /\ {} \in SUBSET Pins
    BY <1>13, <2>2, Zenon
  <2>4. own' = [own EXCEPT ![t].ph = "review", ![t].to = "", ![t].files = {}, ![t].has = hs]
    BY <2>1, <2>2, Zenon
  <2> QED BY <1>11, <1>16, <2>3, <2>4, Zenon
<1> QED BY <1>10, <1>14, <1>15, <1>16, Zenon DEF Release

-----------------------------------------------------------------------------
(* Pins and the rest of the world.                                         *)

\* Opening or closing an unclaimed pin, and drift, change no claim at all.
LEMMA WorldKeeps ==
    ASSUME IInv, UNCHANGED <<own, pc, use, lio>>, TypeOK', OpenInv',
           \A p \in Pins : pin'[p].by = pin[p].by
    PROVE  IInv'
<1>1. \A t \in Targets : Pinned(t)' = Pinned(t) /\ Used(t)' = Used(t)
  BY DEF Pinned, Used
<1>2. ASSUME NEW t \in Targets PROVE FitsNow(t)'
  <2>1. Fits(t, own[t], pc[t], lio[t], Pinned(t), Used(t))
    BY DEF IInv, FitsNow
  <2>2. /\ own'[t] = own[t] /\ pc'[t] = pc[t] /\ lio'[t] = lio[t]
        /\ Pinned(t)' = Pinned(t) /\ Used(t)' = Used(t)
    BY <1>1
  <2> QED BY <2>1, <2>2 DEF FitsNow
<1> QED BY <1>2 DEF IInv

\* A pin is opened unclaimed and closed unclaimed.
LEMMA PinKeeps ==
    ASSUME IInv, NEW p \in Pins, OpenPin(p) \/ ClosePin(p)
    PROVE  IInv'
<1>1. pin \in [Pins -> Claims] /\ OpenInv /\ UNCHANGED <<own, pc, use, lio, drift, faults>>
  BY Zenon DEF IInv, TypeOK, OpenPin, ClosePin
<1>2. pin[p] \in Claims /\ pin[p].by = NoOne
  BY <1>1 DEF OpenPin, ClosePin, OpenInv
<1>3. PICK r \in Claims : pin' = [pin EXCEPT ![p] = r] /\ r.by = NoOne
  <2>1. [open |-> TRUE, by |-> NoOne, review |-> FALSE] \in Claims
    BY DEF Claims
  <2>2. [open |-> FALSE, by |-> NoOne, review |-> FALSE] \in Claims
    BY DEF Claims
  <2>3. CASE OpenPin(p)
    BY <2>1, <2>3, Zenon DEF OpenPin
  <2>4. CASE ClosePin(p)
    BY <1>1, <2>2, <2>4, Zenon DEF ClosePin, Unclaim
  <2> QED BY <2>3, <2>4
<1>4. pin' \in [Pins -> Claims] /\ \A q \in Pins : pin'[q].by = pin[q].by
  BY <1>1, <1>2, <1>3
<1>5. TypeOK'
  BY <1>1, <1>4, Zenon DEF IInv, TypeOK
<1>6. OpenInv'
  BY <1>1, <1>3, <1>4 DEF OpenInv
<1> QED BY <1>1, <1>4, <1>5, <1>6, WorldKeeps

\* An initiator comes only to an enabled target.
LEMMA SessionKeeps ==
    ASSUME IInv, NEW t \in Targets, Session(t)
    PROVE  IInv'
<1>1. /\ own[t] \in Owners /\ lio[t] \in Entries /\ pc[t] \in Calling /\ FitsNow(t)
      /\ own \in [Targets -> Owners] /\ lio \in [Targets -> Entries] /\ pc \in [Targets -> Calling]
      /\ pin' = pin /\ UNCHANGED <<use, drift, faults>> /\ lio[t].on
  BY Parts, Zenon DEF IInv, TypeOK, Calling, Session
<1>2. PICK b \in BOOLEAN : b = ~lio[t].session
  BY <1>1, Zenon DEF Entries
<1>3. PICK l : l = [lio[t] EXCEPT !.session = b]
  BY Zenon
<1>4. l \in Entries /\ l.on = lio[t].on /\ l.has = lio[t].has
  BY <1>1, <1>3, Zenon DEF Entries
<1>5. lio' = [lio EXCEPT ![t] = l]
  BY <1>1, <1>2, <1>3 DEF Session
<1>6. Fits(t, own[t], pc[t], l, Pinned(t), Used(t))
  BY <1>1, <1>4, Zenon DEF FitsNow, Fits
<1>7. own' = [own EXCEPT ![t] = own[t]] /\ pc' = [pc EXCEPT ![t] = pc[t]]
  BY <1>1 DEF Session
<1> QED BY <1>1, <1>4, <1>5, <1>6, <1>7, QuietKeeps, Zenon

\* Drift is not yet anybody's knowledge.
LEMMA MeddleKeeps ==
    ASSUME IInv, Meddle
    PROVE  IInv'
<1>1. /\ drift \in [pins : SUBSET Pins, leases : SUBSET Sources, lio : SUBSET Targets]
      /\ faults \in 0..MaxFaults /\ UNCHANGED <<own, pc, pin, use, lio>>
  BY Zenon DEF IInv, TypeOK, Meddle
<1>2. drift' \in [pins : SUBSET Pins, leases : SUBSET Sources, lio : SUBSET Targets]
  BY <1>1, Zenon DEF Meddle
<1>3. faults' \in 0..MaxFaults
  <2>1. MaxFaults \in Nat
    BY TargetAssumption
  <2>2. faults' = faults \/ (faults < MaxFaults /\ faults' = faults + 1)
    BY Zenon DEF Meddle
  <2> QED BY <1>1, <2>1, <2>2
<1>4. TypeOK' /\ OpenInv'
  BY <1>1, <1>2, <1>3, Zenon DEF IInv, TypeOK, OpenInv
<1> QED BY <1>1, <1>4, WorldKeeps

-----------------------------------------------------------------------------
(* The properties.                                                         *)

\* Nothing is claimed at first.
LEMMA InitEstablishes == Init => IInv
<1> SUFFICES ASSUME Init PROVE IInv
  OBVIOUS
<1>1. Fresh \in Owners
  BY TargetAssumption DEF Fresh, Owners
<1>2. NoTarget \in Entries /\ NoTarget.has = "" /\ ~NoTarget.on /\ ~NoTarget.session
  BY DEF NoTarget, Entries
<1>3. faults \in 0..MaxFaults
  <2>1. MaxFaults \in Nat /\ faults = 0
    BY TargetAssumption, Zenon DEF Init
  <2> QED BY <2>1
<1>4. TypeOK
  BY <1>1, <1>2, <1>3, Zenon DEF Init, TypeOK, Claims
<1>5. OpenInv
  BY Zenon DEF Init, OpenInv
<1>6. ASSUME NEW t \in Targets PROVE FitsNow(t)
  <2>1. t # NoOne
    BY TargetAssumption DEF NoOne
  <2>2. Pinned(t) = {} /\ Used(t) = {}
    BY <2>1, Zenon DEF Init, Pinned, Used
  <2>3. own[t].ph = "none" /\ pc[t] = "" /\ lio[t] = NoTarget
    BY Zenon DEF Init, Fresh
  <2> QED BY <1>2, <2>2, <2>3, Zenon DEF FitsNow, Fits
<1> QED BY <1>4, <1>5, <1>6 DEF IInv

\* Every step of every consumer, pin and bystander keeps what belongs together.
LEMMA NextKeeps == IInv /\ [Next]_vars => IInv'
<1> SUFFICES ASSUME IInv, [Next]_vars PROVE IInv'
  OBVIOUS
<1>1. CASE UNCHANGED vars
  <2>1. /\ TypeOK' /\ OpenInv' /\ UNCHANGED <<own, pc, use, lio, pin>>
    BY <1>1, Zenon DEF IInv, TypeOK, OpenInv, vars
  <2> QED BY <2>1, WorldKeeps
<1>2. ASSUME NEW t \in Targets,
             \/ Admit(t) \/ Calls(t) \/ Start(t) \/ Observe(t) \/ Stop(t) \/ CloseOwner(t)
             \/ Supervise(t) \/ Cancel(t) \/ SuperviseTurn(t) \/ Unsupervise(t) \/ Session(t)
      PROVE  IInv'
  <2>1. CASE Admit(t)
    BY <2>1, AdmitKeeps
  <2>2. CASE Claim(t)
    BY <2>2, ClaimKeeps
  <2>3. CASE AcquireUse(t)
    BY <2>3, AcquireUseKeeps
  <2>4. CASE Admitted(t)
    BY <2>4, AdmittedKeeps
  <2>5. CASE Start(t)
    BY <2>5, StartKeeps
  <2>6. CASE Prepare(t) \/ Bind(t)
    BY <2>6, KernelKeeps
  <2>7. CASE Confirm(t) \/ Observe(t)
    BY <2>7, ConfirmKeeps, Zenon DEF Observe
  <2>8. CASE Stop(t) \/ CloseOwner(t)
    BY <2>8, StopLockedKeeps, Zenon DEF Stop, CloseOwner
  <2>9. CASE SuperviseTurn(t)
    BY <2>9, ConfirmKeeps, StopLockedKeeps, Zenon DEF SuperviseTurn
  <2>10. CASE Supervise(t) \/ Cancel(t) \/ Unsupervise(t)
    BY <2>10, SupervisionKeeps
  <2>11. CASE StopBackend(t)
    BY <2>11, StopBackendKeeps
  <2>12. CASE Release(t)
    BY <2>12, ReleaseKeeps
  <2>13. CASE Session(t)
    BY <2>13, SessionKeeps
  <2> QED BY <1>2, <2>1, <2>2, <2>3, <2>4, <2>5, <2>6, <2>7, <2>8, <2>9, <2>10, <2>11, <2>12, <2>13
          DEF Calls, Admission
<1>3. ASSUME NEW p \in Pins, OpenPin(p) \/ ClosePin(p) PROVE IInv'
  BY <1>3, PinKeeps
<1>4. CASE Meddle
  BY <1>4, MeddleKeeps
<1> QED BY <1>1, <1>2, <1>3, <1>4 DEF Next

\* What each consumer, its calls, the kernel and the claim tables hold fits
\* together in every reachable state.
THEOREM Invariance == Spec => []IInv
<1>1. Init => IInv
  BY InitEstablishes
<1>2. IInv /\ [Next]_vars => IInv'
  BY NextKeeps
<1> QED BY <1>1, <1>2, PTL DEF Spec

\* As long as configfs holds anything of a target, whatever its roster and
\* its rivals, everything the target borrows is retained: no release runs
\* before a stop that removed every entry.
THEOREM RetainedWhileBorrowedHolds == Spec => []RetainedWhileBorrowed
<1>1. IInv => RetainedWhileBorrowed
  <2> SUFFICES ASSUME IInv, NEW t \in Targets, lio[t].has # ""
               PROVE  /\ lio[t].session => lio[t].on
                      /\ own[t].has = Needs(t) /\ own[t].files = Roster[t]
                      /\ \A p \in Roster[t] : pin[p].open /\ pin[p].by = t
                      /\ \A o \in Objects(t) : use[o] = t
    BY Zenon DEF RetainedWhileBorrowed
  <2>1. Held(t, own[t], Pinned(t), Used(t)) /\ (lio[t].session => lio[t].on)
    BY Zenon DEF IInv, FitsNow, Fits
  <2>2. /\ own[t].has = Needs(t) /\ own[t].files = Roster[t]
        /\ Pinned(t) = Roster[t] /\ Used(t) = Objects(t)
    BY <2>1, Zenon DEF Held
  <2>3. ASSUME NEW p \in Roster[t] PROVE pin[p].open /\ pin[p].by = t
    <3>1. p \in Pins /\ pin[p].by = t /\ t # NoOne
      BY <2>2, Parts, Zenon DEF Pinned
    <3> QED BY <3>1, Zenon DEF IInv, OpenInv
  <2>4. \A o \in Objects(t) : use[o] = t
    BY <2>2, Zenon DEF Used
  <2> QED BY <2>1, <2>2, <2>3, <2>4, Zenon
<1> QED BY <1>1, Invariance, PTL

\* A failed admission leaves neither a pin nor an object claimed, however
\* many pins it had claimed and whichever step refused it.
THEOREM FailedAdmissionIsWholeHolds == Spec => []FailedAdmissionIsWhole
<1>1. IInv => FailedAdmissionIsWhole
  <2> SUFFICES ASSUME IInv, NEW t \in Targets, pc[t] = "", own[t].ph = "none"
               PROVE  (\A p \in Pins : pin[p].by # t) /\ (\A o \in DOMAIN use : use[o] # t)
    BY Zenon DEF FailedAdmissionIsWhole
  <2>1. Pinned(t) = {} /\ Used(t) = {}
    BY Zenon DEF IInv, FitsNow, Fits
  <2>2. DOMAIN use = {Object[p] : p \in Pins}
    BY Zenon DEF IInv, TypeOK
  <2> QED BY <2>1, <2>2, Zenon DEF Pinned, Used
<1> QED BY <1>1, Invariance, PTL

\* Owners, claims, kernel entries and drift keep their types.
THEOREM TypeCorrect == Spec => []TypeOK
BY Invariance, PTL DEF IInv

-----------------------------------------------------------------------------
(* The other owner of what the kernel holds: a Set of process groups        *)
(* (ProcessSet).                                                             *)

CONSTANTS N, MaxGen
VARIABLES state, review, gen, owner, os, call, ret, died

Set == INSTANCE ProcessSet WITH own <- owner

MemberOwners == [current : BOOLEAN, ready : BOOLEAN, tried : BOOLEAN, review : BOOLEAN]
ProcessGroups == [leader : {"running", "zombie", "reaped", "done"}, kids : BOOLEAN, terms : Nat, kills : Nat]
SetCalls == [op : {"-", "Start", "Stop", "Observe"}, m : Set!Members, bad : BOOLEAN, unexpected : BOOLEAN,
             step : {"-", "launch", "probe", "ownerStop", "stop", "await", "awaitKill", "observe"}]
Stopping == {"ownerStop", "stop", "await", "awaitKill"}

\* A member that was ready and has ended, and whose Owner still has it.
Ended(m) == owner[m].current /\ owner[m].ready /\ Set!Exited(m)

\* Nothing has gone wrong yet that the Set has taken note of: it is not under
\* review, nor will be when the call in progress returns.
Failing == call.op \in {"Start", "Stop"} /\ call.bad
Clean == ~review /\ ~Failing
SetTypes ==
    /\ review \in BOOLEAN /\ died \in [Set!Members -> BOOLEAN]
    /\ owner \in [Set!Members -> MemberOwners] /\ os \in [Set!Members -> ProcessGroups]
    /\ call \in SetCalls

\* Where a call is says what the Set is doing.
SetControl ==
    /\ call.op = "-" <=> call.step = "-"
    /\ call.op = "Observe" <=> call.step = "observe"
    /\ call.step \in {"launch", "probe"} => call.op = "Start" /\ Clean
    /\ call.op = "Start" <=> state = "starting"
    /\ call.op = "Stop" <=> state = "stopping"
    /\ state \in {"stopped", "ready", "starting"} => ~review
    /\ state = "review" => review
    /\ state \in {"stopped", "ready", "starting", "stopping", "review"}
    /\ call.op = "Stop" /\ review => call.bad

\* A member without a process has no group left.  The loop of Set.Stop and of
\* rollback leaves behind it only members whose stop was attempted, and, as
\* long as nothing has gone wrong, only members that are gone and that nobody
\* has to review; so a ready member that ended by itself is always on record,
\* with its Owner, in the stop in progress, or in the review of the Set.
OfMember(m) ==
    /\ ~owner[m].current => Set!Gone(m)
    /\ state = "stopped" => ~owner[m].current
    /\ call.op \in {"Start", "Stop"} /\ m > call.m =>
          /\ owner[m].current => owner[m].tried
          /\ Clean => ~owner[m].current /\ ~owner[m].review
    /\ call.step = "launch" /\ m = call.m => ~owner[m].current /\ ~owner[m].review
    /\ call.step = "probe" /\ m = call.m =>
          owner[m].current /\ ~owner[m].ready /\ ~owner[m].tried /\ ~owner[m].review
    /\ call.step = "stop" /\ m = call.m => owner[m].current /\ ~owner[m].tried
    /\ call.step \in {"await", "awaitKill"} /\ m = call.m => owner[m].current /\ owner[m].tried
    /\ Clean /\ owner[m].current /\ owner[m].tried => m = call.m /\ call.step \in {"await", "awaitKill"}
    /\ Clean /\ (died[m] \/ owner[m].review) =>
          \/ Ended(m) /\ ~owner[m].tried /\ ~(call.step = "stop" /\ m = call.m)
          \/ call.unexpected /\ m = call.m /\ call.step \in {"stop", "await", "awaitKill"}
    /\ os[m].terms <= 1 /\ os[m].kills <= 1
    /\ owner[m].current /\ ~owner[m].tried => os[m].terms = 0 /\ os[m].kills = 0
    /\ call.step = "await" /\ m = call.m => os[m].kills = 0
    /\ Set!Free /\ (ret.op = "Stop" \/ (ret.op = "Start" /\ ret.res = "failed")) =>
          (owner[m].current => owner[m].tried)

SetInv == SetTypes /\ SetControl /\ \A m \in Set!Members : OfMember(m)

\* Going on to the member before, or to the end of the call, keeps the
\* invariant, if this member is gone, or its stop was attempted and noted.
LEMMA DownKeeps ==
    ASSUME Set!SetAssumption, SetInv, NEW bad \in BOOLEAN, Set!Down(bad), call.bad => bad,
           call.step \in {"launch"} \cup Stopping, UNCHANGED <<os, died>>,
           owner' \in [Set!Members -> MemberOwners], \A k \in Set!Members : k # call.m => owner'[k] = owner[k],
           ~owner'[call.m].current => Set!Gone(call.m),
           owner'[call.m].current => owner'[call.m].tried,
           ~bad => ~owner'[call.m].current /\ ~owner'[call.m].review /\ ~died[call.m]
    PROVE  SetInv'
<1> DEFINE m == call.m
<1>1. m \in Set!Members /\ call.op \in {"Start", "Stop"} /\ Set!Members \subseteq Nat /\ 1 \in Set!Members
      /\ \A k \in Set!Members : k >= 1
  BY DEF Set!SetAssumption, SetInv, SetTypes, SetCalls, SetControl, Stopping, Set!Members
<1>2. \A k \in Set!Members : OfMember(k)
  BY DEF SetInv
<1>3. CASE m > 1
  <2>1. /\ call' = [call EXCEPT !.m = m - 1, !.step = "ownerStop", !.bad = bad]
        /\ UNCHANGED <<ret, state, review, gen>>
    BY <1>3 DEF Set!Down, Set!Same
  <2>2. m - 1 \in Set!Members /\ \A k \in Set!Members : k > m - 1 => k = m \/ k > m
    BY <1>1, <1>3 DEF Set!SetAssumption, Set!Members
  <2>3. SetTypes'
    BY <2>1, <2>2, Zenon DEF SetInv, SetTypes, SetCalls
  <2>4. call'.op = call.op /\ call'.step = "ownerStop" /\ call'.bad = bad /\ call'.m = m - 1
    BY <2>1 DEF SetInv, SetTypes, SetCalls
  <2>5. SetControl'
    BY <1>1, <2>1, <2>4 DEF SetInv, SetControl, Clean, Failing
  <2>6. Clean' => Clean /\ ~bad
    BY <1>1, <2>1, <2>4 DEF Clean, Failing
  <2>7. ASSUME NEW k \in Set!Members PROVE OfMember(k)'
    <3>1. CASE k = m
      <4>1. os[k].terms <= 1 /\ os[k].kills <= 1 /\ (state = "stopped" => bad)
        BY <1>1, <1>2, <3>1 DEF OfMember, SetInv, SetControl
      <4>2. ~owner'[k].current => Set!Gone(k)'
        BY <3>1 DEF Set!Gone, Set!Alive, Set!Exited
      <4>3. Clean' => ~owner'[k].current /\ ~owner'[k].review /\ ~died'[k]
        BY <2>6, <3>1
      <4>4. state' # "stopped" /\ ~Set!Free'
        BY <1>1, <2>1, <2>4 DEF SetInv, SetControl, Set!Free
      <4> QED BY <2>4, <3>1, <4>1, <4>2, <4>3, <4>4 DEF OfMember
    <3>2. CASE k # m
      <4>1. OfMember(k) /\ (k > m - 1 => k > m) /\ owner'[k] = owner[k] /\ k \in Nat
        BY <1>1, <1>2, <2>2, <3>2
      <4> QED BY <1>1, <2>1, <2>4, <2>6, <3>2, <4>1
         DEF OfMember, Set!Gone, Set!Alive, Set!Exited, Ended, Set!Free
    <3> QED BY <3>1, <3>2
  <2> QED BY <2>3, <2>5, <2>7 DEF SetInv
<1>4. CASE ~(m > 1)
  <2>1. m = 1 /\ call' = Set!Idle /\ Set!Finish(bad)
    BY <1>1, <1>4 DEF Set!Down, Set!Finish, Set!Returns
  <2>2. SetTypes'
    BY <1>1, <2>1 DEF SetInv, SetTypes, SetCalls, Set!Idle, Set!Finish
  <2>3. call'.op = "-" /\ call'.step = "-" /\ state' = (IF bad THEN "review" ELSE "stopped") /\ review' = (review \/ bad)
    BY <2>1 DEF Set!Idle, Set!Finish
  <2>4. ~bad => ~review /\ Clean
    BY <1>1 DEF SetInv, SetControl, SetTypes, SetCalls, Clean, Failing
  <2>5. SetControl'
    BY <1>1, <2>3, <2>4 DEF SetInv, SetControl, SetTypes, SetCalls
  <2>6. Clean' => Clean /\ ~bad
    BY <2>3, <2>4 DEF Clean
  <2>7. ASSUME NEW k \in Set!Members PROVE OfMember(k)'
    <3>1. CASE k = m
      BY <1>1, <1>2, <2>1, <2>3, <2>4, <2>6, <3>1 DEF OfMember, Set!Gone, Set!Alive, Set!Exited, Ended, Set!Free
    <3>2. CASE k # m
      BY <1>1, <1>2, <2>1, <2>3, <2>4, <2>6, <3>2 DEF OfMember, Set!Gone, Set!Alive, Set!Exited, Ended, Set!Free
    <3> QED BY <3>1, <3>2
  <2> QED BY <2>2, <2>5, <2>7 DEF SetInv
<1> QED BY <1>3, <1>4

\* The return of stopProcess keeps the invariant: without an error the group
\* is gone, and an error or an unexpected end is noted in the review.
LEMMA StoppedKeeps ==
    ASSUME Set!SetAssumption, SetInv, NEW err \in BOOLEAN, Set!Stopped(err), UNCHANGED <<os, died>>,
           call.step \in {"stop", "await", "awaitKill"}, ~err => call.step = "await" /\ Set!Gone(call.m)
    PROVE  SetInv'
<1> DEFINE m == call.m
           bad == err \/ call.unexpected
<1>1. m \in Set!Members /\ call.op \in {"Start", "Stop"} /\ OfMember(m)
      /\ owner \in [Set!Members -> MemberOwners] /\ call.bad \in BOOLEAN
      /\ call.unexpected \in BOOLEAN
  BY DEF SetInv, SetTypes, SetCalls, SetControl
<1>2. /\ owner' \in [Set!Members -> MemberOwners] /\ \A k \in Set!Members : k # m => owner'[k] = owner[k]
      /\ owner'[m].current = err /\ owner'[m].tried = TRUE /\ owner'[m].review = (owner[m].review \/ bad)
  BY <1>1 DEF Set!Stopped, MemberOwners
<1>3. Set!Down(call.bad \/ bad)
  BY DEF Set!Stopped
<1>4. ~(call.bad \/ bad) => Clean \/ review
  BY DEF Clean, Failing
<1>5. review => call.bad
  BY <1>1 DEF SetInv, SetControl
<1>6. ~(call.bad \/ bad) => ~owner[m].review /\ ~died[m]
  BY <1>1, <1>4, <1>5 DEF OfMember
<1> HIDE DEF bad
<1> QED BY <1>1, <1>2, <1>3, <1>6, DownKeeps DEF Stopping, bad

\* A step of a call leaves alone the members it is not at.
LEMMA OthersKeep ==
    ASSUME NEW k \in Set!Members, OfMember(k), k # call.m, k # call'.m,
           owner'[k] = owner[k], os'[k] = os[k], died'[k] = died[k],
           Clean' => Clean, state' = "stopped" => state = "stopped", Set!Free' => Set!Free /\ ret' = ret,
           call'.op \in {"Start", "Stop"} /\ k > call'.m => call.op \in {"Start", "Stop"} /\ k > call.m
    PROVE  OfMember(k)'
BY DEF OfMember, Set!Gone, Set!Alive, Set!Exited, Ended

\* Every step of Set.Start, Set.Stop and Set.Observe within a call keeps the
\* invariant.
LEMMA CallKeeps == ASSUME Set!SetAssumption, SetInv, Set!CallStep PROVE SetInv'
<1> DEFINE m == call.m
<1>1. /\ m \in Set!Members /\ OfMember(m) /\ owner \in [Set!Members -> MemberOwners]
      /\ os \in [Set!Members -> ProcessGroups]
      /\ call.bad \in BOOLEAN /\ Set!Members \subseteq Nat /\ {1, N} \subseteq Set!Members
  BY DEF Set!SetAssumption, SetInv, SetTypes, SetCalls, Set!Members
<1>2. CASE Set!Launch /\ UNCHANGED <<owner, os>>
  <2>1. call.step = "launch" /\ ~call.bad /\ ~owner[m].current /\ ~owner[m].review /\ Clean
    BY <1>1, <1>2 DEF Set!Launch, SetInv, SetControl, OfMember, Clean, Failing
  <2>2. Set!Down(FALSE) /\ UNCHANGED <<owner, os, died>>
    <3>1. [owner EXCEPT ![m] = [Set!NoOwner EXCEPT !.current = TRUE]][m].current = TRUE
      BY <1>1 DEF Set!NoOwner
    <3> QED BY <1>1, <1>2, <2>1, <3>1, Zenon DEF Set!Launch
  <2>3. ~died[m] /\ Set!Gone(m)
    BY <1>1, <2>1 DEF OfMember, Ended
  <2> QED BY <1>1, <2>1, <2>2, <2>3, DownKeeps, Zenon
<1>3. CASE Set!Launch /\ ~UNCHANGED <<owner, os>>
  <2>1. /\ call.step = "launch" /\ call' = [call EXCEPT !.step = "probe"]
        /\ owner' = [owner EXCEPT ![m] = [current |-> TRUE, ready |-> FALSE, tried |-> FALSE, review |-> FALSE]]
        /\ os' = [os EXCEPT ![m] = [leader |-> "running", kids |-> FALSE, terms |-> 0, kills |-> 0]]
        /\ UNCHANGED <<state, review, gen, ret, died>>
    BY <1>3, Zenon DEF Set!Launch, Set!NoOwner, Set!NoGroup, Set!Goto, Set!Same
  <2>2. SetTypes'
    <3>1. owner' \in [Set!Members -> MemberOwners]
      BY <1>1, <2>1 DEF MemberOwners
    <3>2. os' \in [Set!Members -> ProcessGroups]
      BY <1>1, <2>1 DEF ProcessGroups
    <3>3. call' \in SetCalls
      BY <2>1 DEF SetInv, SetTypes, SetCalls
    <3> QED BY <2>1, <3>1, <3>2, <3>3 DEF SetInv, SetTypes
  <2>3. call'.op = call.op /\ call'.step = "probe" /\ call'.bad = call.bad /\ call'.m = m /\ call.op = "Start"
    BY <2>1 DEF SetInv, SetTypes, SetCalls, SetControl
  <2>4. Clean /\ Clean' /\ SetControl'
    BY <2>1, <2>3 DEF SetInv, SetControl, Clean, Failing
  <2>5. ASSUME NEW k \in Set!Members PROVE OfMember(k)'
    <3>1. CASE k = m
      <4>1. ~died[m]
        BY <1>1, <2>1, <2>4 DEF OfMember, Ended
      <4>2. /\ owner'[m].current /\ ~owner'[m].ready /\ ~owner'[m].tried /\ ~owner'[m].review
            /\ os'[m].terms = 0 /\ os'[m].kills = 0 /\ ~(m > m) /\ state' # "stopped" /\ ~died'[m]
        BY <1>1, <2>1, <2>3, <4>1 DEF SetInv, SetControl
      <4> QED BY <2>3, <3>1, <4>2 DEF OfMember, Set!Free
    <3>2. CASE k # m
      <4>1. OfMember(k) /\ owner'[k] = owner[k] /\ os'[k] = os[k]
        BY <1>1, <2>1, <3>2 DEF SetInv
      <4> QED BY <2>1, <2>3, <2>4, <3>2, <4>1 DEF OfMember, Set!Gone, Set!Alive, Set!Exited, Ended, Set!Free
    <3> QED BY <3>1, <3>2
  <2> QED BY <2>2, <2>4, <2>5 DEF SetInv
<1>4. CASE call.step = "probe" /\ Set!Goto("stop") /\ UNCHANGED <<owner, state, gen, review, os, died>>
  <2>1. call.op = "Start" /\ Clean /\ call' = [call EXCEPT !.step = "stop"] /\ ret' = ret
    BY <1>4 DEF SetInv, SetControl, Set!Goto
  <2>2. call'.op = call.op /\ call'.step = "stop" /\ call'.bad = call.bad /\ call'.m = m
        /\ call'.unexpected = call.unexpected
    BY <2>1 DEF SetInv, SetTypes, SetCalls
  <2>3. SetTypes'
    BY <1>4, <2>1 DEF SetInv, SetTypes, SetCalls
  <2>4. SetControl' /\ Clean'
    BY <1>4, <2>1, <2>2 DEF SetInv, SetControl, Clean, Failing
  <2>5. OfMember(m)'
    BY <1>1, <1>4, <2>1, <2>2, <2>4 DEF OfMember, Set!Gone, Set!Alive, Set!Exited, Ended, Set!Free
  <2>6. ASSUME NEW k \in Set!Members, k # m PROVE OfMember(k)'
    BY <1>1, <1>4, <2>1, <2>2, <2>6, OthersKeep DEF SetInv, Set!Free
  <2> QED BY <2>2, <2>3, <2>4, <2>5, <2>6 DEF SetInv
<1>5. CASE /\ call.step = "probe" /\ ~Set!Exited(m) /\ owner' = [owner EXCEPT ![m].ready = TRUE] /\ m = N
           /\ state' = "ready" /\ Set!Returns("Start", "nil") /\ UNCHANGED <<review, os, died>>
  <2>1. call.op = "Start" /\ Clean /\ state = "starting" /\ ~review
    BY <1>5 DEF SetInv, SetControl
  <2>2. call'.op = "-" /\ call'.step = "-" /\ ret'.op = "Start" /\ ret'.res = "nil"
    BY <1>5 DEF Set!Returns, Set!Idle
  <2>3. SetTypes'
    BY <1>1, <1>5, Zenon DEF SetInv, SetTypes, SetCalls, Set!Returns, Set!Idle, MemberOwners
  <2>4. SetControl' /\ Clean'
    BY <1>5, <2>1, <2>2 DEF SetInv, SetControl, Clean, Failing
  <2>5. ASSUME NEW k \in Set!Members PROVE OfMember(k)'
    <3>1. /\ owner'[k].current = owner[k].current /\ owner'[k].tried = owner[k].tried /\ owner'[k].review = owner[k].review
          /\ owner[k].ready => owner'[k].ready
      BY <1>1, <1>5 DEF MemberOwners
    <3> QED BY <1>5, <2>1, <2>2, <2>4, <3>1 DEF SetInv, OfMember, Set!Gone, Set!Alive, Set!Exited, Ended
  <2> QED BY <2>3, <2>4, <2>5 DEF SetInv
<1>6. CASE /\ call.step = "probe" /\ ~Set!Exited(m) /\ owner' = [owner EXCEPT ![m].ready = TRUE] /\ m # N
           /\ call' = [call EXCEPT !.m = m + 1, !.step = "launch"]
           /\ UNCHANGED <<state, gen, ret, review, os, died>>
  <2>1. call.op = "Start" /\ Clean /\ state = "starting" /\ ~review
    BY <1>6 DEF SetInv, SetControl
  <2>2. m + 1 \in Set!Members /\ \A k \in Set!Members : (k > m + 1 => k > m) /\ (k = m + 1 => k > m) /\ k \in Nat
    BY <1>1, <1>6 DEF Set!Members, Set!SetAssumption
  <2>3. call'.op = call.op /\ call'.step = "launch" /\ call'.bad = call.bad /\ call'.m = m + 1
        /\ call'.unexpected = call.unexpected
    BY <1>6 DEF SetInv, SetTypes, SetCalls
  <2>4. SetTypes'
    BY <1>1, <1>6, <2>2, Zenon DEF SetInv, SetTypes, SetCalls, MemberOwners
  <2>5. SetControl' /\ Clean'
    BY <1>6, <2>1, <2>3 DEF SetInv, SetControl, Clean, Failing
  <2>6. ASSUME NEW k \in Set!Members PROVE OfMember(k)'
    <3>1. /\ owner'[k].current = owner[k].current /\ owner'[k].tried = owner[k].tried /\ owner'[k].review = owner[k].review
          /\ owner[k].ready => owner'[k].ready
      BY <1>1, <1>6 DEF MemberOwners
    <3>2. OfMember(k) /\ (k > m + 1 => k > m) /\ (k = m + 1 => k > m)
      BY <2>2 DEF SetInv
    <3> QED BY <1>6, <2>1, <2>3, <2>5, <3>1, <3>2 DEF OfMember, Set!Gone, Set!Alive, Set!Exited, Ended, Set!Free
  <2> QED BY <2>4, <2>5, <2>6 DEF SetInv
<1>7. CASE Set!OwnerStop /\ ~owner[m].current
  <2>1. Set!Down(call.bad \/ owner[m].review) /\ call.step = "ownerStop" /\ UNCHANGED <<owner, os, died>>
    BY <1>7 DEF Set!OwnerStop
  <2>2. Set!Gone(m) /\ owner[m].review \in BOOLEAN
    BY <1>1, <1>7, Zenon DEF OfMember, MemberOwners
  <2>3. ~(call.bad \/ owner[m].review) => ~died[m]
    <3>1. ~call.bad => Clean
      BY <2>1 DEF Clean, Failing, SetInv, SetControl, SetTypes, SetCalls
    <3> QED BY <1>1, <1>7, <2>1, <3>1 DEF OfMember, Ended
  <2> QED BY <1>1, <1>7, <2>1, <2>2, <2>3, DownKeeps DEF Stopping
<1>8. CASE Set!OwnerStop /\ owner[m].current /\ owner[m].tried
  <2>1. /\ call.step = "ownerStop" /\ Set!Down(TRUE) /\ UNCHANGED <<os, died>>
        /\ owner' = [owner EXCEPT ![m].review = TRUE, ![m].current = ~Set!Gone(m)]
    BY <1>8, Zenon DEF Set!OwnerStop
  <2>2. /\ owner' \in [Set!Members -> MemberOwners] /\ (\A k \in Set!Members : k # m => owner'[k] = owner[k])
        /\ owner'[m].tried = owner[m].tried /\ owner'[m].current = ~Set!Gone(m)
    BY <1>1, <2>1, Zenon DEF MemberOwners
  <2> QED BY <1>1, <1>8, <2>1, <2>2, DownKeeps, Zenon DEF Stopping
<1>9. CASE Set!OwnerStop /\ owner[m].current /\ ~owner[m].tried
  <2>1. /\ call.step = "ownerStop" /\ UNCHANGED <<owner, os, died, ret, state, review, gen>>
        /\ call' = [call EXCEPT !.step = "stop", !.unexpected = owner[m].ready /\ Set!Exited(m)]
    BY <1>9 DEF Set!OwnerStop, Set!Same
  <2>2. call'.op = call.op /\ call'.step = "stop" /\ call'.bad = call.bad /\ call'.m = m
        /\ call'.unexpected = (owner[m].ready /\ Set!Exited(m)) /\ call.op \in {"Start", "Stop"}
    BY <2>1 DEF SetInv, SetTypes, SetCalls, SetControl
  <2>3. SetTypes'
    BY <1>1, <2>1, Zenon DEF SetInv, SetTypes, SetCalls, MemberOwners
  <2>4. SetControl' /\ (Clean' => Clean)
    BY <2>1, <2>2 DEF SetInv, SetControl, Clean, Failing
  <2>5. OfMember(m)'
    BY <1>1, <1>9, <2>1, <2>2, <2>4, Zenon DEF OfMember, Set!Gone, Set!Alive, Set!Exited, Ended, Set!Free
  <2>6. ASSUME NEW k \in Set!Members, k # m PROVE OfMember(k)'
    BY <1>1, <2>1, <2>2, <2>4, <2>6, OthersKeep DEF SetInv, Set!Free
  <2> QED BY <2>2, <2>3, <2>4, <2>5, <2>6 DEF SetInv
<1>10. CASE call.step = "stop" /\ Set!Goto("await") /\ Set!Same /\ owner' = [owner EXCEPT ![m].tried = TRUE]
            /\ os' = [os EXCEPT ![m].terms = @ + IF Set!Alive(m) THEN 1 ELSE 0] /\ UNCHANGED died
  <2>1. call' = [call EXCEPT !.step = "await"] /\ UNCHANGED <<state, review, gen, ret, died>>
    BY <1>10 DEF Set!Goto, Set!Same
  <2>2. call'.op = call.op /\ call'.step = "await" /\ call'.bad = call.bad /\ call'.m = m
        /\ call'.unexpected = call.unexpected /\ call.op \in {"Start", "Stop"}
    BY <1>10, <2>1 DEF SetInv, SetTypes, SetCalls, SetControl
  <2>3. /\ owner' \in [Set!Members -> MemberOwners] /\ (\A k \in Set!Members : k # m => owner'[k] = owner[k])
        /\ owner'[m].tried /\ owner'[m].current = owner[m].current /\ owner'[m].review = owner[m].review
        /\ owner'[m].ready = owner[m].ready
    BY <1>1, <1>10, Zenon DEF MemberOwners
  <2>4. /\ os' \in [Set!Members -> ProcessGroups] /\ (\A k \in Set!Members : k # m => os'[k] = os[k])
        /\ os'[m].leader = os[m].leader /\ os'[m].kids = os[m].kids /\ os'[m].kills = os[m].kills
        /\ os'[m].terms \in {os[m].terms, os[m].terms + 1}
    BY <1>1, <1>10 DEF ProcessGroups
  <2>5. SetTypes'
    BY <2>1, <2>3, <2>4 DEF SetInv, SetTypes, SetCalls
  <2>6. SetControl' /\ (Clean' => Clean)
    BY <1>10, <2>1, <2>2 DEF SetInv, SetControl, Clean, Failing
  <2>7. OfMember(m)'
    BY <1>1, <1>10, <2>1, <2>2, <2>3, <2>4, <2>6
       DEF OfMember, Set!Gone, Set!Alive, Set!Exited, Ended, Set!Free, SetInv, SetControl
  <2>8. ASSUME NEW k \in Set!Members, k # m PROVE OfMember(k)'
    BY <1>1, <2>1, <2>2, <2>3, <2>4, <2>6, <2>8, OthersKeep DEF SetInv, Set!Free
  <2> QED BY <2>2, <2>5, <2>6, <2>7, <2>8 DEF SetInv
<1>11. CASE \/ Set!Signal /\ Set!Stopped(TRUE) /\ UNCHANGED os
            \/ Set!Await /\ Set!Gone(m) /\ Set!Stopped(FALSE) /\ UNCHANGED os
            \/ Set!Await /\ Set!Stopped(TRUE) /\ UNCHANGED os
            \/ Set!AwaitKill
  BY <1>11, StoppedKeeps, Zenon DEF Set!Signal, Set!Await, Set!AwaitKill
<1>12. CASE call.step = "await" /\ Set!Goto("awaitKill") /\ Set!Same /\ UNCHANGED <<owner, died>>
            /\ os' = [os EXCEPT ![m].kills = @ + IF Set!Alive(m) THEN 1 ELSE 0]
  <2>1. call' = [call EXCEPT !.step = "awaitKill"] /\ UNCHANGED <<state, review, gen, ret, died>>
    BY <1>12 DEF Set!Goto, Set!Same
  <2>2. call'.op = call.op /\ call'.step = "awaitKill" /\ call'.bad = call.bad /\ call'.m = m
        /\ call'.unexpected = call.unexpected /\ call.op \in {"Start", "Stop"}
    BY <1>12, <2>1 DEF SetInv, SetTypes, SetCalls, SetControl
  <2>3. /\ os' \in [Set!Members -> ProcessGroups] /\ (\A k \in Set!Members : k # m => os'[k] = os[k])
        /\ os'[m].leader = os[m].leader /\ os'[m].kids = os[m].kids /\ os'[m].terms = os[m].terms
        /\ os'[m].kills \in {os[m].kills, os[m].kills + 1}
    BY <1>1, <1>12 DEF ProcessGroups
  <2>4. SetTypes'
    BY <1>12, <2>1, <2>3 DEF SetInv, SetTypes, SetCalls
  <2>5. SetControl' /\ (Clean' => Clean)
    BY <1>12, <2>1, <2>2 DEF SetInv, SetControl, Clean, Failing
  <2>6. OfMember(m)'
    BY <1>1, <1>12, <2>1, <2>2, <2>3, <2>5
       DEF OfMember, Set!Gone, Set!Alive, Set!Exited, Ended, Set!Free, SetInv, SetControl
  <2>7. ASSUME NEW k \in Set!Members, k # m PROVE OfMember(k)'
    BY <1>1, <1>12, <2>1, <2>2, <2>3, <2>5, <2>7, OthersKeep DEF SetInv, Set!Free
  <2> QED BY <2>2, <2>4, <2>5, <2>6, <2>7 DEF SetInv
<1>13. CASE Set!ObserveMember
  <2> DEFINE found == owner[m].review \/ (owner[m].current /\ owner[m].ready /\ Set!Exited(m))
             bad == call.bad \/ found
  <2>1. /\ call.step = "observe" /\ call.op = "Observe" /\ UNCHANGED <<gen, os, died>>
        /\ state \in {"stopped", "ready", "review"} /\ found \in BOOLEAN
    BY <1>1, <1>13 DEF Set!ObserveMember, SetInv, SetControl, MemberOwners
  <2>2. ASSUME NEW k \in Set!Members, UNCHANGED owner \/ owner' = [owner EXCEPT ![m].review = found]
        PROVE  /\ owner' \in [Set!Members -> MemberOwners] /\ owner'[k].current = owner[k].current
               /\ owner'[k].ready = owner[k].ready
               /\ owner'[k].tried = owner[k].tried
               /\ owner'[k].review => owner[k].review \/ Ended(k)
    BY <1>1, <2>1, <2>2 DEF MemberOwners, Ended
  <2> HIDE DEF found
  <2>3. CASE Set!Returns("Observe", "ErrUnavailable") /\ UNCHANGED <<state, review, owner>>
    <3>1. call' = Set!Idle /\ call'.op = "-" /\ call'.step = "-" /\ ret'.op = "Observe"
      BY <2>3 DEF Set!Returns, Set!Idle
    <3>2. SetTypes' /\ SetControl'
      BY <1>1, <2>1, <2>3, <3>1 DEF SetInv, SetTypes, SetCalls, SetControl, Set!Idle
    <3>3. Clean' => Clean
      BY <2>1, <2>3, <3>1 DEF Clean, Failing
    <3>4. ASSUME NEW k \in Set!Members PROVE OfMember(k)'
      BY <2>1, <2>3, <3>1, <3>3 DEF SetInv, OfMember, Set!Gone, Set!Alive, Set!Exited, Ended
    <3> QED BY <3>2, <3>4 DEF SetInv
  <2>4. CASE owner' = [owner EXCEPT ![m].review = found] /\ call' = [call EXCEPT !.m = m + 1, !.bad = bad] /\ m < N
             /\ UNCHANGED <<state, review, ret>>
    <3>1. m + 1 \in Set!Members
      BY <1>1, <2>4 DEF Set!Members, Set!SetAssumption
    <3>2. call'.op = call.op /\ call'.step = call.step
      BY <2>4 DEF SetInv, SetTypes, SetCalls
    <3>3. SetTypes' /\ SetControl'
      BY <1>1, <2>1, <2>2, <2>4, <3>1, <3>2, Zenon DEF SetInv, SetTypes, SetCalls, SetControl
    <3>4. Clean' => Clean
      BY <2>1, <2>4, <3>2 DEF Clean, Failing
    <3>5. ASSUME NEW k \in Set!Members PROVE OfMember(k)'
      BY <2>1, <2>2, <2>4, <3>2, <3>4 DEF SetInv, OfMember, Set!Gone, Set!Alive, Set!Exited, Ended, Set!Free
    <3> QED BY <3>3, <3>5 DEF SetInv
  <2>5. CASE owner' = [owner EXCEPT ![m].review = found] /\ review' = (review \/ bad)
             /\ state' = (IF bad THEN "review" ELSE state) /\ call' = Set!Idle /\ ret'.op = "Observe"
    <3>1. call'.op = "-" /\ call'.step = "-" /\ bad \in BOOLEAN
      BY <1>1, <2>1, <2>5 DEF Set!Idle
    <3>2. SetTypes' /\ SetControl'
      BY <1>1, <2>1, <2>2, <2>5, <3>1 DEF SetInv, SetTypes, SetCalls, SetControl, Set!Idle
    <3>3. Clean' => Clean
      BY <2>1, <2>5, <3>1, Zenon DEF Clean, Failing
    <3>4. ASSUME NEW k \in Set!Members PROVE OfMember(k)'
      BY <2>1, <2>2, <2>5, <3>1, <3>3 DEF SetInv, OfMember, Set!Gone, Set!Alive, Set!Exited, Ended
    <3> QED BY <3>2, <3>4 DEF SetInv
  <2> QED BY <1>13, <2>3, <2>4, <2>5 DEF Set!ObserveMember, Set!Returns, found
<1>14. CASE Set!Probe
  BY <1>4, <1>5, <1>6, <1>14 DEF Set!Probe
<1>15. CASE Set!Signal
  BY <1>10, <1>11, <1>15, Zenon DEF Set!Signal
<1>16. CASE Set!Await
  BY <1>11, <1>12, <1>16, Zenon DEF Set!Await
<1> QED BY <1>2, <1>3, <1>7, <1>8, <1>9, <1>11, <1>13, <1>14, <1>15, <1>16, Zenon DEF Set!CallStep

\* The calls themselves do: Set.Start begins only when nothing is current, and
\* Set.Stop carries an earlier review on.
LEMMA EntersKeeps ==
    ASSUME Set!SetAssumption, SetInv, Set!Start \/ Set!Stop \/ Set!Observe PROVE SetInv'
<1>1. {1, N} \subseteq Set!Members /\ call.op = "-" /\ call.step = "-" /\ state \in {"stopped", "ready", "review"}
      /\ UNCHANGED <<review, owner, os, died>> /\ review \in BOOLEAN
  <2>1. {1, N} \subseteq Set!Members
    BY DEF Set!SetAssumption, Set!Members
  <2>2. Set!Free /\ UNCHANGED <<review, owner, os, died>>
    BY Zenon DEF Set!Start, Set!Stop, Set!Observe
  <2> QED BY <2>1, <2>2 DEF SetInv, SetTypes, SetCalls, SetControl, Set!Free
<1>2. CASE call' = Set!Idle /\ UNCHANGED state /\ ret'.op = "Start" /\ ret'.res # "failed"
  <2>1. call'.op = "-" /\ call'.step = "-"
    BY <1>2 DEF Set!Idle
  <2>2. SetTypes' /\ SetControl'
    BY <1>1, <1>2, <2>1 DEF SetInv, SetTypes, SetCalls, SetControl, Set!Idle
  <2>3. Clean' => Clean
    BY <1>1, <1>2, <2>1 DEF Clean, Failing
  <2>4. ASSUME NEW k \in Set!Members PROVE OfMember(k)'
    BY <1>1, <1>2, <2>1, <2>3 DEF SetInv, OfMember, Set!Gone, Set!Alive, Set!Exited, Ended
  <2> QED BY <2>2, <2>4 DEF SetInv
<1>3. ASSUME NEW op \in {"Start", "Stop", "Observe"}, NEW step \in {"launch", "ownerStop", "observe"},
             NEW m \in {1, N}, NEW bad \in BOOLEAN, Set!Enters(op, step, m, bad)
      PROVE  /\ call' \in SetCalls
             /\ call'.op = op /\ call'.step = step /\ call'.m = m /\ call'.bad = bad
  BY <1>1, <1>3, Zenon DEF Set!Enters, Set!Idle, SetCalls
<1>4. CASE Set!Enters("Start", "launch", 1, FALSE) /\ state' = "starting" /\ state # "ready" /\ ~review
  <2>1. state = "stopped" /\ Clean /\ call'.op = "Start" /\ call'.step = "launch" /\ call'.m = 1 /\ ~call'.bad
    BY <1>1, <1>3, <1>4, Zenon DEF SetInv, SetControl, Clean, Failing
  <2>2. SetTypes' /\ SetControl' /\ Clean'
    <3>1. SetTypes'
      BY <1>1, <1>3, <1>4, Zenon DEF SetInv, SetTypes, SetCalls
    <3>2. SetControl' /\ Clean'
      BY <1>1, <1>4, <2>1 DEF SetInv, SetControl, Clean, Failing
    <3> QED BY <3>1, <3>2
  <2>3. ASSUME NEW k \in Set!Members PROVE OfMember(k)'
    BY <1>1, <1>4, <2>1, <2>2 DEF SetInv, OfMember, Set!Gone, Set!Alive, Set!Exited, Ended, Set!Free
  <2> QED BY <2>2, <2>3 DEF SetInv
<1>5. CASE Set!Stop
  <2>1. call'.op = "Stop" /\ call'.step = "ownerStop" /\ call'.m = N /\ call'.bad = review /\ state' = "stopping"
    BY <1>1, <1>3, <1>5 DEF Set!Stop
  <2>2. SetTypes' /\ SetControl'
    <3>1. SetTypes'
      BY <1>1, <1>3, <1>5 DEF SetInv, SetTypes, SetCalls, Set!Stop
    <3>2. SetControl'
      BY <1>1, <2>1 DEF SetInv, SetControl
    <3> QED BY <3>1, <3>2
  <2>3. Clean' => Clean
    BY <1>1, <2>1 DEF Clean, Failing
  <2>4. ASSUME NEW k \in Set!Members PROVE OfMember(k)'
    <3>1. ~(k > N)
      BY DEF Set!Members, Set!SetAssumption
    <3> QED BY <1>1, <2>1, <2>3, <3>1 DEF SetInv, OfMember, Set!Gone, Set!Alive, Set!Exited, Ended, Set!Free
  <2> QED BY <2>2, <2>4 DEF SetInv
<1>6. CASE Set!Observe
  <2>1. call'.op = "Observe" /\ call'.step = "observe" /\ UNCHANGED state
    BY <1>1, <1>3, <1>6, Zenon DEF Set!Observe
  <2>2. SetTypes' /\ SetControl'
    <3>1. SetTypes'
      BY <1>1, <1>3, <1>6, Zenon DEF SetInv, SetTypes, SetCalls, Set!Observe
    <3>2. SetControl'
      BY <1>1, <2>1 DEF SetInv, SetControl
    <3> QED BY <3>1, <3>2
  <2>3. Clean' => Clean
    BY <1>1, <2>1 DEF Clean, Failing
  <2>4. ASSUME NEW k \in Set!Members PROVE OfMember(k)'
    BY <1>1, <2>1, <2>3 DEF SetInv, OfMember, Set!Gone, Set!Alive, Set!Exited, Ended, Set!Free
  <2> QED BY <2>2, <2>4 DEF SetInv
<1>7. CASE Set!Start
  <2>1. CASE review
    <3>1. Set!Returns("Start", "ErrReviewRequired") /\ UNCHANGED state
      BY <1>1, <1>7, <2>1, Zenon DEF Set!Start, SetInv, SetControl
    <3> QED BY <1>2, <3>1 DEF Set!Returns
  <2>2. CASE ~review /\ state = "ready"
    <3>1. Set!Returns("Start", "ErrAlreadyRunning") /\ UNCHANGED state
      BY <1>1, <1>7, <2>2 DEF Set!Start
    <3> QED BY <1>2, <3>1 DEF Set!Returns
  <2>3. CASE ~review /\ state # "ready"
    BY <1>1, <1>4, <1>7, <2>3 DEF Set!Start
  <2> QED BY <2>1, <2>2, <2>3
<1> QED BY <1>5, <1>6, <1>7

\* Processes end and fork as they like, but a group that is gone stays gone.
LEMMA ProcessKeeps ==
    ASSUME SetInv, NEW m \in Set!Members,
           Set!LeaderExits(m) \/ Set!Reaped(m) \/ Set!WaitReturns(m) \/ Set!KidsChange(m)
    PROVE  SetInv'
<1>1. /\ os \in [Set!Members -> ProcessGroups] /\ died \in [Set!Members -> BOOLEAN] /\ OfMember(m)
      /\ UNCHANGED <<state, review, gen, owner, call, ret>>
  BY DEF SetInv, SetTypes, SetCalls, Set!LeaderExits, Set!Reaped, Set!WaitReturns, Set!KidsChange
<1>2. /\ os' \in [Set!Members -> ProcessGroups] /\ died' \in [Set!Members -> BOOLEAN]
      /\ \A k \in Set!Members : k # m => os'[k] = os[k] /\ died'[k] = died[k]
      /\ os'[m].terms = os[m].terms /\ os'[m].kills = os[m].kills
  <2>1. CASE Set!LeaderExits(m)
    BY <1>1, <2>1 DEF ProcessGroups, Set!LeaderExits
  <2>2. CASE Set!Reaped(m)
    BY <1>1, <2>2 DEF ProcessGroups, Set!Reaped
  <2>3. CASE Set!WaitReturns(m)
    BY <1>1, <2>3 DEF ProcessGroups, Set!WaitReturns
  <2>4. CASE Set!KidsChange(m)
    BY <1>1, <2>4, Zenon DEF ProcessGroups, Set!KidsChange
  <2> QED BY <2>1, <2>2, <2>3, <2>4
<1>3. ~Set!Gone(m) /\ (Set!Exited(m) => Set!Exited(m)')
  BY <1>1
     DEF Set!Gone, Set!Exited, Set!Alive, Set!LeaderExits, Set!Reaped, Set!WaitReturns, Set!KidsChange,
         ProcessGroups
<1>4. died'[m] => died[m] \/ (Ended(m)' /\ ~owner[m].tried /\ ~(call.step = "stop" /\ call.m = m))
  BY <1>1 DEF Set!LeaderExits, Set!Reaped, Set!WaitReturns, Set!KidsChange, Ended, Set!Exited, ProcessGroups
<1>5. SetTypes' /\ SetControl' /\ Clean' = Clean
  BY <1>1, <1>2 DEF SetInv, SetTypes, SetCalls, SetControl, Clean, Failing
<1>6. OfMember(m)'
  BY <1>1, <1>2, <1>3, <1>4, <1>5 DEF OfMember, Ended, Set!Free
<1>7. ASSUME NEW k \in Set!Members, k # m PROVE OfMember(k)'
  BY <1>1, <1>2, <1>5, <1>7 DEF SetInv, OfMember, Set!Gone, Set!Alive, Set!Exited, Ended, Set!Free
<1> QED BY <1>5, <1>6, <1>7 DEF SetInv

\* For any number of members: a process group that is alive has an Owner that
\* knows it and a Set that is not "stopped", whatever start, rollback or stop
\* went wrong; a ready service that ended by itself is not stopped away; and
\* SIGTERM and SIGKILL are sent at most once each to a group, which no failure
\* of another member spares its one stop attempt (internal/processowner).
THEOREM NothingIsLeftBehind ==
    ASSUME Set!SetAssumption
    PROVE  Set!Spec => [](Set!NothingLeftBehind /\ Set!OneStopAttempt)
<1>1. Set!Init => SetInv
  <2> SUFFICES ASSUME Set!Init PROVE SetInv
    OBVIOUS
  <2>1. 1 \in Set!Members
    BY DEF Set!SetAssumption, Set!Members
  <2>2. SetTypes /\ SetControl
    BY <2>1, Zenon
       DEF Set!Init, SetTypes, SetCalls, SetControl, Set!Idle, Set!NoOwner, Set!NoGroup, MemberOwners,
           ProcessGroups, Clean, Failing
  <2>3. ASSUME NEW k \in Set!Members PROVE OfMember(k)
    BY
       DEF Set!Init, OfMember, Set!Idle, Set!NoOwner, Set!NoGroup, Set!Gone, Set!Alive, Set!Exited,
           Ended, Set!Free, Clean
  <2> QED BY <2>2, <2>3 DEF SetInv
<1>2. SetInv /\ [Set!Next]_Set!vars => SetInv'
  <2>1. ASSUME SetInv, UNCHANGED Set!vars PROVE SetInv'
    <3>1. UNCHANGED <<state, review, gen, owner, os, call, ret, died>>
      BY <2>1 DEF Set!vars
    <3>2. SetTypes' /\ SetControl' /\ Clean' = Clean
      BY <2>1, <3>1 DEF SetInv, SetTypes, SetCalls, SetControl, Clean, Failing
    <3>3. ASSUME NEW k \in Set!Members PROVE OfMember(k)'
      BY <2>1, <3>1, <3>2 DEF SetInv, OfMember, Set!Gone, Set!Alive, Set!Exited, Ended, Set!Free
    <3> QED BY <3>2, <3>3 DEF SetInv
  <2> QED BY <2>1, EntersKeeps, CallKeeps, ProcessKeeps DEF Set!Next
<1>3. ASSUME SetInv PROVE Set!NothingLeftBehind /\ Set!OneStopAttempt
  <2>1. state = "stopped" => Clean
    BY <1>3 DEF SetInv, SetControl, Clean, Failing
  <2>2. ASSUME NEW m \in Set!Members
        PROVE  /\ Set!Alive(m) => owner[m].current /\ state # "stopped"
               /\ died[m] => state # "stopped"
    <3>1. OfMember(m) /\ (state = "stopped" => call.op \notin {"Start", "Stop"})
      BY <1>3 DEF SetInv, SetControl
    <3>2. state = "stopped" => call.step \notin {"stop", "await", "awaitKill"}
      BY <1>3 DEF SetInv, SetControl, SetTypes, SetCalls
    <3> QED BY <2>1, <3>1, <3>2 DEF OfMember, Set!Gone, Ended
  <2>3. Set!OneStopAttempt
    BY <1>3 DEF SetInv, OfMember, Set!OneStopAttempt
  <2> QED BY <2>2, <2>3 DEF Set!NothingLeftBehind
<1> QED BY <1>1, <1>2, <1>3, PTL DEF Set!Spec
=============================================================================
