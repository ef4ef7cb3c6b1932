------------------------------ MODULE Bootstrap ------------------------------
(***************************************************************************)
(* internal/revisionstore, bootstrap: what is in a policy's directory      *)
(* before any store is opened on it.  An authority keeps the directory     *)
(* open, locked and watched; an observation lists the names, takes the     *)
(* files' stamps, reads the current document and takes the stamps again.   *)
(* The stores respect the lock; another program need not.                  *)
(*                                                                         *)
(* A stamp has the resolution of the kernel's clock: a change may leave it *)
(* as it was.  A change below the watch always leaves an event.            *)
(***************************************************************************)
EXTENDS Naturals

CONSTANT MaxWrites    \* bound: changes to the directory

VARIABLES
    dir,     \* the directory: its names, what the current document is, its stamps
    writes,  \* history: changes so far
    lock,    \* who holds the directory's flock
    event,   \* the watch has an event to read
    a,       \* the BootstrapAuthority
    o,       \* the observation that is under way, and its locals
    seen     \* history: what was in the directory during the observation

vars == <<dir, writes, lock, event, a, o, seen>>

CurrentName == "current"
PendingName == "pending"
Names == {CurrentName, PendingName, "other"}

\* What an observation is about.
Observed(d) == [names |-> d.names, doc |-> IF CurrentName \in d.names THEN d.doc ELSE "none"]

\* The kind of a directory, as the observation reports it.
Kind(names, doc) ==
    IF ~ names \subseteq {CurrentName, PendingName} THEN "unrecognized-entries"
    ELSE IF PendingName \in names THEN "pending-evidence"
    ELSE IF CurrentName \notin names THEN "empty-directory"
    ELSE IF doc = "valid" THEN "valid-current-policy" ELSE "invalid-or-unsupported-policy"

Closed == [state |-> "closed", review |-> FALSE, once |-> FALSE, initial |-> 0]
At(at) == o.at = at
Begin(at) == [at |-> at, names |-> {}, stamp |-> 0, doc |-> "none", answer |-> "-"]
Answer(answer) == [Begin("idle") EXCEPT !.answer = answer]
quiet == ~event
sameRoot == dir.stamp = a.initial

-----------------------------------------------------------------------------
(* Opening: the descriptor's stamp, the lock, the watch, the stamp again.   *)

OpenDirectory(once) ==
    /\ a.state = "closed" /\ At("idle")
    /\ IF lock # "free" THEN o' = Answer("ErrBusy") /\ UNCHANGED <<a, lock>>
       ELSE /\ a' = [Closed EXCEPT !.state = "opening", !.once = once, !.initial = dir.stamp]
            /\ lock' = "observer" /\ o' = Begin("watch")
    /\ seen' = {} /\ UNCHANGED <<dir, writes, event>>

\* The one-shot observer goes straight on to observe.
AddWatch ==
    /\ At("watch") /\ event' = FALSE
    /\ a' = [a EXCEPT !.state = "open"]
    /\ o' = Begin(IF a.once THEN "list" ELSE "reopened")
    /\ seen' = {Observed(dir)} /\ UNCHANGED <<dir, writes, lock>>

\* Whatever fails: the authority stays in review; the one-shot observer returns,
\* and a constructor that failed closes what it opened, if it can.
Fails(answer) ==
    /\ o' = Answer(answer)
    /\ \/ (a.once \/ At("watch") \/ At("reopened")) /\ a' = Closed /\ lock' = "free"
       \/ ~a.once /\ (At("watch") \/ At("reopened")) /\ UNCHANGED lock
          /\ a' = [a EXCEPT !.state = "close failed", !.review = TRUE]
       \/ ~a.once /\ ~At("watch") /\ ~At("reopened") /\ UNCHANGED lock
          /\ a' = [a EXCEPT !.review = TRUE]
    /\ UNCHANGED <<dir, writes, event, seen>>

OpenBootstrapAuthorityWithCodec ==
    /\ At("reopened") /\ sameRoot /\ quiet
    /\ o' = Answer("open") /\ UNCHANGED <<dir, writes, lock, event, a, seen>>

-----------------------------------------------------------------------------
(* Observe, one observation at a time under the authority's mutex.          *)

Observe ==
    /\ At("idle") /\ a.state \in {"open", "close failed"}
    /\ o' = IF a.review \/ a.state = "close failed" THEN Answer("ErrReview") ELSE Begin("enter")
    /\ seen' = {Observed(dir)} /\ UNCHANGED <<dir, writes, lock, event, a>>

\* The original directory, and a cursor of its own on it.
openCursor ==
    /\ At("enter") /\ sameRoot /\ quiet
    /\ o' = [o EXCEPT !.at = "list"] /\ UNCHANGED <<dir, writes, lock, event, a, seen>>

\* Readdirnames, at most three names in chunks: what is listed may change between.
listNames ==
    /\ At("list") /\ quiet
    /\ \E chunk \in SUBSET dir.names : o' = [o EXCEPT !.at = "more", !.names = chunk]
    /\ UNCHANGED <<dir, writes, lock, event, a, seen>>

listMore ==
    /\ At("more")
    /\ LET names == o.names \cup dir.names IN
       o' = [o EXCEPT !.names = names, !.stamp = dir.file,
                      !.at = IF ~ names \subseteq {CurrentName, PendingName} \/ CurrentName \notin names
                                \/ PendingName \in names THEN "stamps" ELSE "read"]
    /\ UNCHANGED <<dir, writes, lock, event, a, seen>>

\* The current document: its stamp, what it decodes to, its stamp again.
bootstrapCurrentRevision ==
    /\ At("read") /\ CurrentName \in dir.names /\ dir.file = o.stamp
    /\ o' = [o EXCEPT !.doc = dir.doc, !.at = "decoded"]
    /\ UNCHANGED <<dir, writes, lock, event, a, seen>>

decoded ==
    /\ At("decoded") /\ dir.file = o.stamp
    /\ o' = [o EXCEPT !.at = "stamps"] /\ UNCHANGED <<dir, writes, lock, event, a, seen>>

sameFiles ==
    ~ o.names \subseteq {CurrentName, PendingName} \/
    (o.names \subseteq dir.names /\ (CurrentName \in o.names => dir.file = o.stamp))

\* The observation may end without a look at the watch.
observeHeldStamps ==
    /\ At("stamps") /\ sameFiles /\ sameRoot
    /\ o' = Answer(Kind(o.names, o.doc))
    /\ IF a.once THEN a' = Closed /\ lock' = "free" ELSE UNCHANGED <<a, lock>>
    /\ UNCHANGED <<dir, writes, event, seen>>

\* The end of the collector and of its caller.
observeBootstrapHeld ==
    /\ At("stamps") /\ sameFiles /\ sameRoot /\ quiet
    /\ o' = Answer(Kind(o.names, o.doc))
    /\ IF a.once THEN a' = Closed /\ lock' = "free" ELSE UNCHANGED <<a, lock>>
    /\ UNCHANGED <<dir, writes, event, seen>>

\* A system call or the context fails, or a comparison does.
Refused == ~At("idle") /\ \E answer \in {"ErrReview", "ErrIO"} : Fails(answer)

\* The watch first, then the directory and with it the lock: a failure is terminal.
Close ==
    /\ At("idle") /\ a.state = "open"
    /\ \/ a' = Closed /\ lock' = "free"
       \/ a' = [a EXCEPT !.state = "close failed", !.review = TRUE] /\ UNCHANGED lock
    /\ o' = Answer("-") /\ UNCHANGED <<dir, writes, event, seen>>

-----------------------------------------------------------------------------
(* The directory.                                                           *)

\* Published by name, removed, or written in place.
Changed(names, doc) ==
    /\ writes < MaxWrites /\ writes' = writes + 1
    /\ \E tick, ftick \in {0, writes'} :
           dir' = [names |-> names, doc |-> doc,
                   stamp |-> IF names # dir.names /\ tick # 0 THEN tick ELSE dir.stamp,
                   file |-> IF doc # dir.doc /\ ftick # 0 THEN ftick ELSE dir.file]
    /\ event' = (a.state = "open" \/ event)
    /\ seen' = IF At("idle") THEN seen ELSE seen \cup {Observed(dir')}

\* A store opens when the lock is free, stages and publishes, and lets it go.
StoreOpens ==
    /\ \/ lock = "free" /\ lock' = "store"
       \/ lock = "store" /\ lock' = "free"
    /\ UNCHANGED <<dir, writes, event, a, o, seen>>
StoreWrites ==
    /\ lock = "store"
    /\ \/ Changed(dir.names \cup {PendingName}, dir.doc)
       \/ PendingName \in dir.names /\ Changed((dir.names \ {PendingName}) \cup {CurrentName}, "valid")
    /\ UNCHANGED <<lock, a, o>>

\* Another program adds or removes one name, or writes the document in place.
Foreign ==
    /\ \/ \E name \in Names \ dir.names : Changed(dir.names \cup {name}, dir.doc)
       \/ \E name \in dir.names : Changed(dir.names \ {name}, dir.doc)
       \/ CurrentName \in dir.names /\ \E doc \in {"valid", "invalid"} \ {dir.doc} : Changed(dir.names, doc)
    /\ UNCHANGED <<lock, a, o>>

Init ==
    /\ \E names \in SUBSET Names, doc \in {"valid", "invalid"} :
           dir = [names |-> names, doc |-> doc, stamp |-> 0, file |-> 0]
    /\ writes = 0 /\ lock = "free" /\ event = FALSE
    /\ a = Closed /\ o = Answer("-") /\ seen = {}

Next ==
    \/ \E once \in BOOLEAN : OpenDirectory(once)
    \/ AddWatch \/ OpenBootstrapAuthorityWithCodec
    \/ Observe \/ openCursor \/ listNames \/ listMore \/ bootstrapCurrentRevision \/ decoded
    \/ observeBootstrapHeld \/ Refused \/ Close
    \/ StoreOpens \/ StoreWrites \/ Foreign

Spec == Init /\ [][Next]_vars

-----------------------------------------------------------------------------
Kinds == {Kind(names, doc) : names \in SUBSET Names, doc \in {"valid", "invalid"}}

\* A BootstrapObservation is "a redacted point-in-time value": it is returned only
\* when the directory stayed as it was from the beginning to the end, and it
\* tells what was in it, names and document together.
ObservedAtOnce ==
    o.answer \in Kinds => \E c \in seen : seen = {c} /\ Kind(c.names, c.doc) = o.answer

\* An observation is not taken of a directory in which a store is at work, nor by an
\* authority in doubt.
ObservedAlone ==
    /\ a.state = "open" => lock = "observer"
    /\ o.answer \in Kinds /\ a.state = "open" => ~a.review
=============================================================================
