-------------------------- MODULE NASWriterProofs --------------------------
(***************************************************************************)
(* The safety properties of NASWriter for any contents, any operation      *)
(* identifiers, any revisions and any number of crashes.                   *)
(***************************************************************************)
EXTENDS NASWriter, TLAPS

-----------------------------------------------------------------------------
(* The directories a Commit goes through, the pending file left aside.     *)

Follows(r) == r \in Records /\ r.next.rev = r.base.rev + 1

Fresh(d) == d.base = None /\ d.intent = None /\ d.receipt = None
Complete(d) ==
    /\ Follows(d.intent) /\ d.base = d.intent.base
    /\ d.current = d.intent.next /\ d.receipt = d.intent
\* The new base is there, over nothing recorded or over a complete operation.
Based(d) ==
    /\ d.base = d.current
    /\ \/ d.intent = None /\ d.receipt = None
       \/ Follows(d.intent) /\ d.intent.next = d.current /\ d.receipt = d.intent
\* The new intent is there; the old receipt may be.
Intended(d) ==
    /\ Follows(d.intent) /\ d.base = d.intent.base /\ d.current = d.intent.base
    /\ d.receipt # d.intent
Published(d) ==
    /\ Follows(d.intent) /\ d.base = d.intent.base
    /\ d.current = d.intent.next /\ d.receipt = None

Shape(d) ==
    /\ d.current \in Docs
    /\ Fresh(d) \/ Complete(d) \/ Based(d) \/ Intended(d) \/ Published(d)

\* Every directory a power loss may leave is one of these; two of them differ in
\* their policy only around the rename of the current file, under one intent.
DiskInv ==
    /\ \A d \in disk : Shape(d)
    /\ \A d, e \in disk : d.current # e.current =>
          /\ d.intent # None /\ d.intent = e.intent
          /\ d.receipt = None /\ e.receipt = None

\* What was acknowledged is in every one of them or was replaced since.
AckedInv ==
    \A a \in acked, d \in disk :
        /\ a = d.current \/ a.rev < d.current.rev
        /\ d.intent # None
        /\ Published(d) => a # d.current

\* An owner that serves a policy serves a durable one.
OwnerInv == life = "owner" /\ ~Busy /\ ~review => \A d \in disk : d.current = dir.current

RecordOf(c) == [op |-> c.op, base |-> c.base, next |-> c.next]

\* The directory when the Commit c is where it is.
Wanted(d, c) ==
    LET done == c.phase \in {"syncDir", "check"}
    IN /\ c.step = 1 => d.current = c.base /\ IF done THEN Based(d) ELSE Fresh(d) \/ Complete(d)
       /\ c.step = 2 => d.current = c.base /\ IF done THEN Intended(d) /\ d.intent = RecordOf(c) ELSE Based(d)
       /\ c.step = 3 => /\ d.intent = RecordOf(c)
                        /\ IF done THEN Published(d) ELSE Intended(d)
                        /\ c.phase # "retire" => d.receipt = None
       /\ c.step = 4 => d.intent = RecordOf(c) /\ IF done THEN Complete(d) ELSE Published(d)

\* And every directory a power loss may leave then.
Left(d, c) ==
    /\ c.step \in {1, 2} => d.current = c.base
    /\ c.step = 3 => /\ d.intent = RecordOf(c)
                     /\ c.phase \in {"stage", "rename", "syncDir", "check"} => d.receipt = None
                     /\ c.phase \notin {"syncDir", "check"} => d.current = c.base
    /\ c.step = 4 => d.current = c.next

\* A Commit in progress belongs to an owner that is not under review; its step
\* starts and ends with everything durable.
CallInv ==
    Busy =>
      /\ life = "owner" /\ ~review
      /\ call.next.rev = call.base.rev + 1
      /\ call.phase \in {"retire", "retireSync", "retireCheck"} => call.step = 3
      /\ Wanted(dir, call) /\ (dir.pending <=> call.phase = "rename")
      /\ \A d \in disk : Left(d, call)
      /\ call.phase \in {"retireCheck", "check"} => disk = {dir}

IInv == TypeOK /\ DiskInv /\ AckedInv /\ OwnerInv /\ CallInv

-----------------------------------------------------------------------------
(* What the records say of such a directory.                               *)

\* Kind tells the directories apart: clean records only before and after a
\* commit, unconfirmed ones only between its intent and its receipt.
LEMMA KindTells ==
    ASSUME NEW d \in Dirs, Shape(d)
    PROVE  /\ Kind(d) = "MatchingLocalRecords" => ~d.pending /\ Complete(d)
           /\ Kind(d) = "NoRecordedOperation" => ~d.pending /\ Fresh(d)
           /\ Kind(d) \in {"UnconfirmedBase", "UnconfirmedPublication"} =>
                 d.receipt = None /\ (Intended(d) \/ Published(d))
           /\ (Intended(d) /\ d.receipt = None) \/ Published(d) =>
                 d.pending \/ Kind(d) \in {"UnconfirmedBase", "UnconfirmedPublication"}
<1>1. None \notin Docs /\ None \notin Records /\ d.current \in Docs /\ d.current # None
  BY NoneIsNoFile DEF Shape
<1>2. CASE Fresh(d)
  <2>1. d.base = None /\ d.intent = None /\ d.receipt = None
    BY <1>2 DEF Fresh
  <2>2. Inspect(d.current, d.intent, d.receipt) = "NoRecordedOperation"
    BY <1>1, <2>1 DEF Inspect
  <2>3. ~Intended(d) /\ ~Published(d)
    BY <1>1, <2>1 DEF Intended, Published, Follows
  <2> QED BY <1>2, <2>1, <2>2, <2>3 DEF Kind
<1>3. CASE ~Fresh(d)
  <2>1. CASE d.intent = None
    <3>1. d.receipt = None /\ d.base \in Docs /\ d.base # None
      BY <1>1, <1>3, <2>1 DEF Shape, Fresh, Complete, Based, Intended, Published, Follows
    <3>2. Inspect(d.current, d.intent, d.receipt) = "NoRecordedOperation"
      BY <1>1, <2>1, <3>1 DEF Inspect
    <3>3. Kind(d) = "Inconsistent"
      BY <3>1, <3>2 DEF Kind
    <3>4. ~Intended(d) /\ ~Published(d)
      BY <1>1, <2>1 DEF Intended, Published, Follows
    <3> QED BY <3>3, <3>4
  <2>2. CASE d.intent # None
    <3>1. Follows(d.intent) /\ d.base \in Docs /\ d.base # None
      BY <1>1, <1>3, <2>2 DEF Shape, Fresh, Complete, Based, Intended, Published, Follows, Records
    <3>2. d.intent.next.rev = d.intent.base.rev + 1 /\ d.intent.base # d.intent.next
      BY <3>1 DEF Follows, Records, Docs
    <3>3. d.intent \in Records
      BY <3>1 DEF Follows
    <3> DEFINE I == Inspect(d.current, d.intent, d.receipt)
    <3>4. /\ I = "MatchingLocalRecords" => d.receipt = d.intent /\ d.current = d.intent.next
          /\ I # "NoRecordedOperation"
          /\ I \in {"UnconfirmedBase", "UnconfirmedPublication"} => d.receipt = None
          /\ d.receipt = None /\ d.current \in {d.intent.base, d.intent.next} =>
                I \in {"UnconfirmedBase", "UnconfirmedPublication"}
      BY <1>1, <2>2, <3>2, <3>3 DEF Inspect, Matches
    <3> HIDE DEF I
    <3>5. /\ Kind(d) \in {"MatchingLocalRecords", "NoRecordedOperation", "UnconfirmedBase", "UnconfirmedPublication"} =>
                Kind(d) = I /\ ~d.pending /\ d.base = d.intent.base
          /\ ~d.pending /\ d.base = d.intent.base /\ I # "NoRecordedOperation" => Kind(d) = I
      BY <3>1 DEF Kind, I
    <3>6. Kind(d) = "MatchingLocalRecords" => ~d.pending /\ Complete(d)
      BY <3>1, <3>4, <3>5 DEF Complete
    <3>7. d.receipt = None /\ d.base = d.intent.base => Intended(d) \/ Published(d)
      BY <1>1, <1>3, <2>2, <3>3 DEF Shape, Complete, Based, Intended, Published
    <3>8. Intended(d) \/ Published(d) => d.base = d.intent.base /\ d.current \in {d.intent.base, d.intent.next}
      BY DEF Intended, Published
    <3>9. Published(d) => d.receipt = None
      BY DEF Published
    <3> QED BY <3>4, <3>5, <3>6, <3>7, <3>8, <3>9
  <2> QED BY <2>1, <2>2
<1> QED BY <1>2, <1>3

\* A directory in which the policy is still the base was not published.
LEMMA ShapesApart ==
    ASSUME NEW d \in Dirs
    PROVE  /\ Complete(d) => d.receipt # None /\ ~Published(d)
           /\ Based(d) \/ Intended(d) => ~Published(d)
           /\ Fresh(d) => ~Published(d)
<1>1. None \notin Docs /\ None \notin Records
  BY NoneIsNoFile
<1>2. ASSUME Follows(d.intent) PROVE d.intent # None /\ d.intent.base # d.intent.next
  BY <1>1, <1>2 DEF Follows, Records, Docs
<1> QED BY <1>1, <1>2 DEF Complete, Based, Intended, Published, Fresh

-----------------------------------------------------------------------------
(* Lemmas about the disk and the ends of a call.                           *)

\* Role and Data by step.
LEMMA StepRoles ==
    /\ call.step = 1 => Role = "base" /\ Data = call.base
    /\ call.step = 2 => Role = "intent" /\ Data = Record
    /\ call.step = 3 => Role = "current" /\ Data = call.next
    /\ call.step = 4 => Role = "receipt" /\ Data = Record
BY DEF Role, Data, Steps

\* The record of a Commit follows from its base.
LEMMA RecordFollows ==
    ASSUME IInv, Busy
    PROVE  /\ call \in Commits /\ Record = RecordOf(call) /\ Follows(Record) /\ Record # None
           /\ Record.base = call.base /\ Record.next = call.next
           /\ call.base.rev \in Nat /\ call.next.rev = call.base.rev + 1
<1>1. call \in Commits
  BY DEF IInv, TypeOK, Busy, Idle
<1>2. call.next.rev = call.base.rev + 1
  BY DEF IInv, CallInv
<1>3. Record \in Records /\ Record.base = call.base /\ Record.next = call.next
  BY <1>1 DEF Record, Records, Commits
<1>4. call.base.rev \in Nat
  BY <1>1 DEF Commits, Docs
<1> QED BY <1>1, <1>2, <1>3, <1>4, NoneIsNoFile DEF Follows, Record, RecordOf

\* Fewer directories to come back with.
LEMMA FewerKeeps ==
    ASSUME IInv, disk' \subseteq disk, UNCHANGED acked
    PROVE  DiskInv' /\ AckedInv' /\ disk' \in SUBSET Dirs /\ acked' \in SUBSET Docs
BY DEF IInv, TypeOK, DiskInv, AckedInv

\* One more, which is a step of the same commit.
LEMMA OneMoreKeeps ==
    ASSUME IInv, NEW d \in Dirs, disk' = disk \cup {d}, UNCHANGED acked, Shape(d),
           \A e \in disk : d.current # e.current =>
               d.intent # None /\ d.intent = e.intent /\ d.receipt = None /\ e.receipt = None,
           \A a \in acked : /\ a = d.current \/ a.rev < d.current.rev
                            /\ d.intent # None
                            /\ Published(d) => a # d.current
    PROVE  DiskInv' /\ AckedInv' /\ disk' \in SUBSET Dirs /\ acked' \in SUBSET Docs
<1>1. DiskInv'
  BY DEF IInv, DiskInv
<1>2. AckedInv'
  BY DEF IInv, AckedInv
<1> QED BY <1>1, <1>2 DEF IInv, TypeOK

\* A call that ends in review leaves the disk as it is, and no claim about it.
LEMMA ReviewKeeps ==
    ASSUME IInv, Review, Same, DiskInv', AckedInv', dir' \in disk', disk' \in SUBSET Dirs,
           acked' \in SUBSET Docs, wrote' \in BOOLEAN
    PROVE  IInv'
<1>1. call' = Idle /\ ret' = "ErrReview" /\ review' = TRUE /\ UNCHANGED <<life, seen, baseline>>
  BY DEF Review, Returns, Same
<1>2. ~Busy'
  BY <1>1 DEF Busy, Idle
<1>3. TypeOK'
  BY <1>1 DEF IInv, TypeOK
<1> QED BY <1>1, <1>2, <1>3 DEF IInv, OwnerInv, CallInv

\* A step that changes the directory leads to one more of the same commit,
\* whether it goes on or fails with or without its effect.
LEMMA ChangeKeeps ==
    ASSUME IInv, Busy, NEW d \in Dirs, NEW p \in Phases, Changes(d, p), Shape(d),
           \A e \in disk : d.current # e.current =>
               d.intent # None /\ d.intent = e.intent /\ d.receipt = None /\ e.receipt = None,
           \A a \in acked : /\ a = d.current \/ a.rev < d.current.rev
                            /\ d.intent # None
                            /\ Published(d) => a # d.current,
           NEW c, c = [call EXCEPT !.phase = p],
           Wanted(d, c), \A e \in disk \cup {d} : Left(e, c),
           d.pending <=> p = "rename", p \in {"retireSync", "rename", "syncDir"}, p = "retireSync" => call.step = 3
    PROVE  IInv'
<1>1. wrote' = TRUE /\ UNCHANGED <<life, seen, baseline, acked>> /\ disk' = disk \cup {d} /\ Same
  BY DEF Changes, Same
<1>2. DiskInv' /\ AckedInv' /\ disk' \in SUBSET Dirs /\ acked' \in SUBSET Docs
  BY <1>1, OneMoreKeeps
<1>3. CASE Review /\ dir' \in {d, dir}
  <2>1. dir' \in disk'
    BY <1>1, <1>3 DEF IInv, TypeOK
  <2> QED BY <1>1, <1>2, <1>3, <2>1, ReviewKeeps
<1>4. CASE dir' = d /\ Goto(p) /\ UNCHANGED review
  <2>1. call \in Commits /\ call.next.rev = call.base.rev + 1 /\ life = "owner" /\ ~review
    BY RecordFollows DEF IInv, CallInv
  <2>2. /\ call' = c /\ c \in Commits /\ c.phase = p /\ c.step = call.step /\ c.base = call.base
        /\ c.next = call.next /\ UNCHANGED ret
    BY <1>4, <2>1 DEF Goto, Commits
  <2>3. Busy'
    BY <2>2 DEF Busy
  <2>4. TypeOK'
    BY <1>1, <1>2, <1>4, <2>2 DEF IInv, TypeOK
  <2>5. Wanted(dir', call') /\ \A e \in disk' : Left(e, call')
    BY <1>1, <1>4, <2>2
  <2>6. CallInv'
    BY <1>1, <1>4, <2>1, <2>2, <2>5 DEF CallInv
  <2> QED BY <1>2, <2>3, <2>4, <2>6 DEF IInv, OwnerInv
<1> QED BY <1>3, <1>4 DEF Changes

-----------------------------------------------------------------------------
(* The steps of a Commit.                                                  *)

\* An old receipt is retired while the policy is still the base.
LEMMA RetireReceiptKeeps ==
    ASSUME IInv, RetireReceipt
    PROVE  IInv'
<1>1. Busy /\ call \in Commits /\ Record = RecordOf(call) /\ Follows(Record) /\ Record # None
  BY RecordFollows DEF RetireReceipt, Busy
<1>2. /\ dir \in Dirs /\ dir \in disk /\ call.step = 3 /\ ~dir.pending
      /\ Intended(dir) /\ dir.intent = Record
      /\ \A e \in disk : e.intent = Record /\ e.current = call.base
  BY <1>1 DEF IInv, TypeOK, CallInv, Wanted, Left, RetireReceipt
<1>3. PICK d : d = [dir EXCEPT !.receipt = None]
  BY Zenon
<1>4. /\ d \in Dirs /\ d.base = dir.base /\ d.intent = dir.intent /\ d.current = dir.current
      /\ d.receipt = None /\ ~d.pending
  BY <1>2, <1>3 DEF Dirs
<1>5. Intended(d) /\ ~Published(d) /\ Shape(d)
  <2>1. Intended(d)
    BY <1>1, <1>2, <1>4 DEF Intended
  <2>2. d.current \in Docs
    BY <1>2, <1>4 DEF IInv, DiskInv, Shape
  <2> QED BY <1>4, <2>1, <2>2, ShapesApart DEF Shape
<1>6. \A a \in acked : (a = d.current \/ a.rev < d.current.rev) /\ d.intent # None
  BY <1>2, <1>4 DEF IInv, AckedInv
<1>7. PICK c : c = [call EXCEPT !.phase = "retireSync"]
  BY Zenon
<1>8. c.step = 3 /\ c.phase = "retireSync" /\ c.base = call.base /\ RecordOf(c) = Record
  BY <1>1, <1>2, <1>7 DEF Commits, RecordOf
<1>9. Wanted(d, c) /\ \A e \in disk \cup {d} : Left(e, c)
  BY <1>2, <1>4, <1>5, <1>8 DEF Wanted, Left
<1> QED BY <1>1, <1>2, <1>3, <1>4, <1>5, <1>6, <1>7, <1>9, ChangeKeeps, Zenon DEF RetireReceipt, Phases

\* Staging adds the pending file and nothing else.
LEMMA StageKeeps ==
    ASSUME IInv, Stage
    PROVE  IInv'
<1>1. Busy /\ call \in Commits /\ Record = RecordOf(call) /\ call.phase = "stage"
  BY RecordFollows DEF Stage, Busy
<1>2. dir \in Dirs /\ dir \in disk /\ ~dir.pending /\ Shape(dir)
  BY <1>1 DEF IInv, TypeOK, CallInv, DiskInv
<1>3. PICK d : d = [dir EXCEPT !.pending = TRUE]
  BY Zenon
<1>4. /\ d \in Dirs /\ d.base = dir.base /\ d.intent = dir.intent /\ d.current = dir.current
      /\ d.receipt = dir.receipt /\ d.pending
  BY <1>2, <1>3, Zenon DEF Dirs
<1>5. /\ (Fresh(d) <=> Fresh(dir)) /\ (Complete(d) <=> Complete(dir)) /\ (Based(d) <=> Based(dir))
      /\ (Intended(d) <=> Intended(dir)) /\ (Published(d) <=> Published(dir))
  BY <1>4 DEF Fresh, Complete, Based, Intended, Published
<1>6. Shape(d)
  BY <1>2, <1>4, <1>5 DEF Shape
<1>7. /\ \A e \in disk : d.current # e.current =>
            d.intent # None /\ d.intent = e.intent /\ d.receipt = None /\ e.receipt = None
      /\ \A a \in acked : /\ a = d.current \/ a.rev < d.current.rev
                          /\ d.intent # None
                          /\ Published(d) => a # d.current
  BY <1>2, <1>4, <1>5 DEF IInv, DiskInv, AckedInv
<1>8. PICK c : c = [call EXCEPT !.phase = "rename"]
  BY Zenon
<1>9. c.step = call.step /\ c.phase = "rename" /\ c.base = call.base /\ c.next = call.next /\ RecordOf(c) = RecordOf(call)
  BY <1>1, <1>8 DEF Commits, RecordOf
<1>10. Wanted(dir, call) /\ \A e \in disk : Left(e, call)
  BY <1>1 DEF IInv, CallInv
<1>11. Wanted(d, c)
  BY <1>1, <1>4, <1>5, <1>9, <1>10 DEF Wanted
<1>12. \A e \in disk : Left(e, c)
  BY <1>1, <1>9, <1>10 DEF Left
<1>13. Left(d, c)
  BY <1>2, <1>4, <1>12 DEF Left
<1> QED BY <1>1, <1>2, <1>3, <1>4, <1>6, <1>7, <1>8, <1>11, <1>12, <1>13, ChangeKeeps, Zenon DEF Stage, Phases

\* The rename makes the directory the next of the commit's shapes.  Only the third
\* one changes the policy; the intent that names both is then in every directory a
\* power loss may leave.
LEMMA RenameKeeps ==
    ASSUME IInv, Rename
    PROVE  IInv'
<1>1. /\ Busy /\ call \in Commits /\ Record = RecordOf(call) /\ call.phase = "rename" /\ Follows(Record)
      /\ Record # None /\ Record.base = call.base /\ Record.next = call.next
      /\ call.base.rev \in Nat /\ call.next.rev = call.base.rev + 1
  BY RecordFollows, Zenon DEF Rename, Busy
<1>2. /\ dir \in Dirs /\ dir \in disk /\ Shape(dir) /\ Wanted(dir, call)
      /\ \A e \in disk : Left(e, call)
  BY <1>1 DEF IInv, TypeOK, CallInv, DiskInv
<1>3. call.base # call.next /\ call.base \in Docs /\ call.next \in Docs /\ Record \in Records /\ Record # None
  BY <1>1 DEF Commits, Follows
<1>4. PICK d : d = [dir EXCEPT ![Role] = Data, !.pending = FALSE]
  BY Zenon
<1>5. PICK c : c = [call EXCEPT !.phase = "syncDir"]
  BY Zenon
<1>6. c.step = call.step /\ c.phase = "syncDir" /\ c.base = call.base /\ c.next = call.next /\ RecordOf(c) = Record
  BY <1>1, <1>5 DEF Commits, RecordOf
<1>7. Changes(d, "syncDir") /\ "syncDir" \in Phases
  BY <1>4, Zenon DEF Rename, Phases
<1>8. \A a \in acked : /\ a = dir.current \/ a.rev < dir.current.rev
                       /\ dir.intent # None
                       /\ Published(dir) => a # dir.current
  BY <1>2 DEF IInv, AckedInv
<1>9. CASE call.step = 1
  <2>1. /\ d \in Dirs /\ d.base = call.base /\ d.intent = dir.intent /\ d.current = dir.current
        /\ d.receipt = dir.receipt /\ ~d.pending
    BY <1>2, <1>3, <1>4, <1>9, StepRoles, Zenon DEF Dirs
  <2>2. (Fresh(dir) \/ Complete(dir)) /\ dir.current = call.base
    BY <1>1, <1>2, <1>9 DEF Wanted
  <2>3. Based(d) /\ Shape(d) /\ ~Published(d)
    BY <1>2, <2>1, <2>2, ShapesApart DEF Fresh, Complete, Based, Shape
  <2>4. Wanted(d, c)
    BY <1>6, <1>9, <2>1, <2>2, <2>3 DEF Wanted
  <2>5. \A e \in disk \cup {d} : Left(e, c)
    BY <1>2, <1>6, <1>9, <2>1, <2>2 DEF Left
  <2>6. \A e \in disk : d.current = e.current
    BY <1>2, <1>9, <2>1, <2>2 DEF Left
  <2> QED BY <1>1, <1>5, <1>7, <1>8, <2>1, <2>3, <2>4, <2>5, <2>6, ChangeKeeps
<1>10. CASE call.step = 2
  <2>1. /\ d \in Dirs /\ d.base = dir.base /\ d.intent = Record /\ d.current = dir.current
        /\ d.receipt = dir.receipt /\ ~d.pending
    BY <1>2, <1>3, <1>4, <1>10, StepRoles, Zenon DEF Dirs
  <2>2. Based(dir) /\ dir.current = call.base
    BY <1>1, <1>2, <1>10 DEF Wanted
  <2>3. dir.receipt # Record
    BY <1>1, <1>3, <2>2 DEF Based
  <2>4. Intended(d)
    BY <1>1, <2>1, <2>2, <2>3 DEF Based, Intended
  <2>5. Shape(d) /\ ~Published(d)
    BY <1>2, <2>1, <2>4, ShapesApart DEF Shape
  <2>6. Wanted(d, c)
    BY <1>6, <1>10, <2>1, <2>2, <2>4 DEF Wanted
  <2>7. \A e \in disk \cup {d} : Left(e, c)
    BY <1>2, <1>6, <1>10, <2>1, <2>2 DEF Left
  <2>8. \A e \in disk : d.current = e.current
    BY <1>2, <1>10, <2>1, <2>2 DEF Left
  <2> QED BY <1>1, <1>5, <1>7, <1>8, <2>1, <2>5, <2>6, <2>7, <2>8, ChangeKeeps
<1>11. CASE call.step = 3
  <2>1. /\ d \in Dirs /\ d.base = dir.base /\ d.intent = dir.intent /\ d.current = call.next
        /\ d.receipt = dir.receipt /\ ~d.pending
    BY <1>2, <1>3, <1>4, <1>11, StepRoles, Zenon DEF Dirs
  <2>2. Intended(dir) /\ dir.intent = Record /\ dir.receipt = None
    BY <1>1, <1>2, <1>11 DEF Wanted
  <2>3. Published(d) /\ Shape(d)
    BY <1>1, <1>3, <2>1, <2>2 DEF Intended, Published, Shape
  <2>4. \A e \in disk : e.intent = Record /\ e.receipt = None
    BY <1>1, <1>2, <1>11 DEF Left
  <2>5. Wanted(d, c)
    BY <1>6, <1>11, <2>1, <2>2, <2>3 DEF Wanted
  <2>6. \A e \in disk \cup {d} : Left(e, c)
    BY <1>6, <1>11, <2>1, <2>2, <2>4 DEF Left
  <2>7. \A a \in acked : a.rev < call.next.rev
    <3>1. dir.current = call.base
      BY <1>1, <2>2 DEF Intended
    <3>2. \A a \in acked : a.rev \in Nat
      BY DEF IInv, TypeOK, Docs
    <3> QED BY <1>1, <1>8, <3>1, <3>2
  <2>8. \A a \in acked : a.rev < d.current.rev /\ a # d.current
    BY <1>1, <2>1, <2>7
  <2> QED BY <1>1, <1>5, <1>7, <2>1, <2>2, <2>3, <2>4, <2>5, <2>6, <2>8, ChangeKeeps
<1>12. CASE call.step = 4
  <2>1. /\ d \in Dirs /\ d.base = dir.base /\ d.intent = dir.intent /\ d.current = dir.current
        /\ d.receipt = Record /\ ~d.pending
    BY <1>2, <1>3, <1>4, <1>12, StepRoles, Zenon DEF Dirs
  <2>2. Published(dir) /\ dir.intent = Record
    BY <1>1, <1>2, <1>12 DEF Wanted
  <2>3. Complete(d)
    BY <2>1, <2>2 DEF Published, Complete
  <2>4. Shape(d) /\ ~Published(d)
    BY <1>2, <2>1, <2>3, ShapesApart DEF Shape
  <2>5. Wanted(d, c)
    BY <1>6, <1>12, <2>1, <2>2, <2>3 DEF Wanted
  <2>6. d.current = call.next
    BY <1>1, <2>1, <2>2 DEF Published
  <2>7. \A e \in disk \cup {d} : Left(e, c)
    BY <1>2, <1>6, <1>12, <2>6 DEF Left
  <2>8. \A e \in disk : d.current = e.current
    BY <1>2, <1>12, <2>6 DEF Left
  <2> QED BY <1>1, <1>5, <1>7, <1>8, <2>1, <2>4, <2>5, <2>7, <2>8, ChangeKeeps
<1>13. call.step \in {1, 2, 3, 4}
  BY <1>1 DEF Commits
<1> QED BY <1>9, <1>10, <1>11, <1>12, <1>13

\* A step that only moves the call on, and may make the directory durable.
LEMMA MoveOnKeeps ==
    ASSUME IInv, Busy, disk' \subseteq disk, dir \in disk', UNCHANGED <<dir, acked, life, seen, review, ret, wrote>>,
           baseline' \in Dirs \cup {None},
           call' \in Commits, call'.base = call.base, call'.next = call.next,
           Wanted(dir, call'), \A e \in disk' : Left(e, call'),
           dir.pending <=> call'.phase = "rename",
           call'.phase \in {"retire", "retireSync", "retireCheck"} => call'.step = 3,
           call'.phase \in {"retireCheck", "check"} => disk' = {dir}
    PROVE  IInv'
<1>1. DiskInv' /\ AckedInv' /\ disk' \in SUBSET Dirs /\ acked' \in SUBSET Docs
  BY FewerKeeps
<1>2. TypeOK'
  BY <1>1 DEF IInv, TypeOK
<1>3. Busy'
  BY DEF Busy, Commits, Phases
<1>4. CallInv'
  BY DEF IInv, CallInv
<1> QED BY <1>1, <1>2, <1>3, <1>4 DEF IInv, OwnerInv

\* A sync that succeeds leaves one directory, and one that fails leaves all.
LEMMA SyncKeeps ==
    ASSUME IInv, RetireSync \/ SyncDir
    PROVE  IInv'
<1>1. /\ Busy /\ call \in Commits /\ call.step \in 1..4
      /\ call.phase \in {"retireSync", "syncDir"} /\ dir \in disk /\ dir.pending = FALSE
  BY RecordFollows DEF RetireSync, SyncDir, Busy, IInv, TypeOK, CallInv, Commits, Dirs
<1>2. Wanted(dir, call) /\ Left(dir, call) /\ (call.phase = "retireSync" => call.step = 3)
  BY <1>1 DEF IInv, CallInv
<1>3. PICK p \in {"retireCheck", "check"} : Syncs(p) /\ (p = "check" <=> call.phase = "syncDir")
  BY DEF RetireSync, SyncDir
<1>4. UNCHANGED <<dir, wrote, acked>> /\ Same
  BY <1>3 DEF Syncs
<1>5. CASE UNCHANGED disk /\ Review
  <2>1. DiskInv' /\ AckedInv' /\ disk' \in SUBSET Dirs /\ acked' \in SUBSET Docs
    BY <1>4, <1>5, FewerKeeps
  <2>2. wrote' \in BOOLEAN /\ dir' \in disk'
    BY <1>1, <1>4, <1>5 DEF IInv, TypeOK
  <2> QED BY <1>4, <1>5, <2>1, <2>2, ReviewKeeps
<1>6. CASE disk' = {dir} /\ Goto(p) /\ UNCHANGED review
  <2>1. /\ call' \in Commits /\ call'.phase = p /\ call'.step = call.step /\ call'.base = call.base
        /\ call'.next = call.next /\ RecordOf(call') = RecordOf(call)
    BY <1>1, <1>6 DEF Goto, Commits, Phases, RecordOf
  <2>2. Wanted(dir, call')
    BY <1>1, <1>2, <1>3, <2>1 DEF Wanted
  <2>3. Left(dir, call')
    BY <1>1, <1>2, <1>3, <2>1, <2>2 DEF Left, Wanted
  <2>4. UNCHANGED <<life, seen, baseline, ret>> /\ baseline' \in Dirs \cup {None}
    BY <1>4, <1>6 DEF Same, Goto, IInv, TypeOK
  <2> QED BY <1>1, <1>2, <1>3, <1>4, <1>6, <2>1, <2>2, <2>3, <2>4, MoveOnKeeps
<1> QED BY <1>3, <1>5, <1>6 DEF Syncs

\* Refreshing accepts the one durable directory and starts the next file.
LEMMA RefreshKeeps ==
    ASSUME IInv, RetireCheck \/ Check
    PROVE  IInv'
<1>1. /\ Busy /\ call \in Commits /\ Record = RecordOf(call) /\ Follows(Record) /\ Record # None
      /\ Record.base = call.base /\ Record.next = call.next
      /\ call.step \in {1, 2, 3, 4} /\ disk = {dir} /\ dir \in Dirs /\ dir.pending = FALSE /\ wrote \in BOOLEAN
      /\ UNCHANGED <<dir, disk, wrote>>
  BY RecordFollows DEF RetireCheck, Check, Busy, IInv, TypeOK, CallInv, Commits, Dirs
<1>2. Wanted(dir, call) /\ Left(dir, call) /\ (call.phase = "retireCheck" => call.step = 3)
  BY <1>1 DEF IInv, CallInv
<1>3. CASE Review /\ UNCHANGED acked /\ UNCHANGED <<life, seen>> /\ baseline' \in Dirs \cup {None}
  <2>1. DiskInv' /\ AckedInv' /\ acked' \in SUBSET Docs
    BY <1>1, <1>3, FewerKeeps
  <2>2. call' = Idle /\ ret' = "ErrReview" /\ review' = TRUE
    BY <1>3 DEF Review, Returns
  <2>3. ~Busy'
    BY <2>2 DEF Busy, Idle
  <2>4. TypeOK'
    BY <1>1, <1>3, <2>1, <2>2 DEF IInv, TypeOK
  <2> QED BY <2>1, <2>2, <2>3, <2>4 DEF IInv, OwnerInv, CallInv
<1>4. CASE RetireCheck /\ Goto("stage") /\ UNCHANGED review /\ UNCHANGED <<acked, life, seen>> /\ baseline' = dir
  <2>1. /\ call' \in Commits /\ call'.phase = "stage" /\ call'.step = 3 /\ call'.base = call.base
        /\ call'.next = call.next /\ RecordOf(call') = RecordOf(call) /\ call.phase = "retireCheck"
    BY <1>1, <1>2, <1>4 DEF RetireCheck, Goto, Commits, Phases, RecordOf
  <2>2. Wanted(dir, call')
    BY <1>1, <1>2, <2>1 DEF Wanted
  <2>3. Left(dir, call')
    BY <1>1, <1>2, <2>1, <2>2 DEF Left, Wanted
  <2> QED BY <1>1, <1>4, <2>1, <2>2, <2>3, MoveOnKeeps DEF Goto
<1>5. CASE /\ Check /\ Role # "receipt" /\ call' = [call EXCEPT !.step = @ + 1, !.phase = StartOf(call.step + 1, dir)]
           /\ UNCHANGED <<review, ret, acked, life, seen>> /\ baseline' = dir
  <2>1. call.phase = "check" /\ call.step \in {1, 2, 3}
    BY <1>1, <1>5, StepRoles DEF Check
  <2>2. StartOf(call.step + 1, dir) \in Phases
    BY DEF StartOf, Phases
  <2>3. /\ call' \in Commits /\ call'.phase = StartOf(call.step + 1, dir) /\ call'.step = call.step + 1
        /\ call'.base = call.base /\ call'.next = call.next /\ RecordOf(call') = RecordOf(call)
    <3>1. PICK ph \in Phases : ph = StartOf(call.step + 1, dir)
      BY <2>2
    <3>2. PICK st \in 1..4 : st = call.step + 1
      BY <2>1
    <3>3. call' = [call EXCEPT !.step = st, !.phase = ph]
      BY <1>1, <1>5, <3>1, <3>2 DEF Commits
    <3> QED BY <1>1, <3>1, <3>2, <3>3, Zenon DEF Commits, RecordOf
  <2>4. /\ call.step = 1 => call'.phase = "stage"
        /\ call.step = 2 => call'.phase = IF dir.receipt # None THEN "retire" ELSE "stage"
        /\ call.step = 3 => call'.phase = "stage"
    BY <2>3 DEF StartOf, Steps
  <2>5. Wanted(dir, call') /\ Left(dir, call')
    <3>1. CASE call.step = 1
      BY <1>2, <2>1, <2>3, <2>4, <3>1 DEF Wanted, Left
    <3>2. CASE call.step = 2
      BY <1>1, <1>2, <2>1, <2>3, <2>4, <3>2 DEF Wanted, Left, Intended
    <3>3. CASE call.step = 3
      BY <1>1, <1>2, <2>1, <2>3, <2>4, <3>3 DEF Wanted, Left, Published
    <3> QED BY <2>1, <3>1, <3>2, <3>3
  <2>6. call'.phase \in {"retire", "stage"} /\ (call'.phase = "retire" => call'.step = 3)
    BY <2>1, <2>3, <2>4
  <2> QED BY <1>1, <1>5, <2>3, <2>5, <2>6, MoveOnKeeps
<1>6. CASE /\ Check /\ Role = "receipt" /\ Returns("nil") /\ acked' = acked \cup {call.next}
           /\ UNCHANGED <<review, life, seen>> /\ baseline' = dir
  <2>1. call.step = 4 /\ call.phase = "check"
    BY <1>1, <1>6, StepRoles DEF Check
  <2>2. Complete(dir) /\ dir.intent = Record
    BY <1>1, <1>2, <2>1 DEF Wanted
  <2>3. dir.current = call.next /\ ~Published(dir) /\ dir.intent # None
    BY <1>1, <2>2, ShapesApart DEF Complete
  <2>4. DiskInv'
    BY <1>1 DEF IInv, DiskInv
  <2>5. AckedInv'
    BY <1>1, <1>6, <2>3 DEF IInv, AckedInv
  <2>6. call' = Idle /\ ret' = "nil" /\ ~Busy'
    BY <1>6 DEF Returns, Busy, Idle
  <2>7. call.next \in Docs
    BY <1>1 DEF Commits
  <2>8. TypeOK'
    BY <1>1, <1>6, <2>6, <2>7 DEF IInv, TypeOK
  <2> QED BY <1>1, <2>4, <2>5, <2>6, <2>8 DEF IInv, OwnerInv, CallInv
<1>7. baseline \in Dirs \cup {None}
  BY DEF IInv, TypeOK
<1>8. CASE RetireCheck
  BY <1>1, <1>3, <1>4, <1>7, <1>8 DEF RetireCheck, Refreshes, Same
<1>9. CASE Check
  BY <1>1, <1>3, <1>5, <1>6, <1>7, <1>9 DEF Check, Refreshes, Same
<1> QED BY <1>8, <1>9

-----------------------------------------------------------------------------
(* The other operations and the environment.                               *)

\* A Commit starts from clean records, on a policy that is durable.
LEMMA CommitKeeps ==
    ASSUME IInv, NEW expected \in 1..MaxRevision, NEW next \in Docs, NEW op \in OperationIds,
           Commit(expected, next, op)
    PROVE  IInv'
<1>1. /\ life = "owner" /\ ~Busy /\ wrote' = FALSE
      /\ UNCHANGED <<dir, disk, acked, life, seen, baseline>> /\ Same
  BY DEF Commit, Same
<1>2. DiskInv' /\ AckedInv' /\ disk' \in SUBSET Dirs /\ acked' \in SUBSET Docs /\ dir' \in disk' /\ call = Idle
  <2>1. call = Idle
    BY <1>1 DEF IInv, TypeOK, Commits, Phases, Busy
  <2>2. dir' \in disk'
    BY <1>1 DEF IInv, TypeOK
  <2> QED BY <1>1, <2>1, <2>2, FewerKeeps
<1>3. CASE Review
  BY <1>1, <1>2, <1>3, ReviewKeeps, Zenon
<1>4. CASE ~review /\ UNCHANGED review /\ \E err \in {"ErrConflict", "ErrInvalid"} : Returns(err)
  <2>1. call' = Idle /\ ~Busy'
    BY <1>4 DEF Returns, Busy, Idle
  <2>2. TypeOK'
    BY <1>1, <1>2, <1>4, <2>1, Zenon DEF IInv, TypeOK, Returns
  <2>3. OwnerInv'
    BY <1>1, <1>4 DEF IInv, OwnerInv
  <2> QED BY <1>2, <2>1, <2>2, <2>3 DEF IInv, CallInv
<1>5. CASE /\ ~review /\ UNCHANGED review /\ Captures /\ CommitError(expected, next, op) = "-"
           /\ call' = [phase |-> "stage", step |-> 1, base |-> dir.current, next |-> next, op |-> op]
           /\ ret' = "-"
  <2>1. dir \in Dirs /\ dir \in disk /\ Shape(dir) /\ dir.current \in Docs
    BY DEF IInv, TypeOK, DiskInv, Shape
  <2>2. ~dir.pending /\ (Fresh(dir) \/ Complete(dir))
    BY <1>5, <2>1, KindTells DEF Captures
  <2>3. next.rev = dir.current.rev + 1
    BY <1>5 DEF CommitError
  <2>4. \A d \in disk : d.current = dir.current
    BY <1>1, <1>5 DEF IInv, OwnerInv
  <2>5. /\ call' \in Commits /\ call'.phase = "stage" /\ call'.step = 1 /\ call'.base = dir.current
        /\ call'.next = next
    BY <1>5, <2>1 DEF Commits, Phases
  <2>6. Busy' /\ Wanted(dir, call') /\ \A d \in disk : Left(d, call')
    BY <2>2, <2>4, <2>5 DEF Busy, Wanted, Left
  <2>7. TypeOK'
    BY <1>1, <1>2, <1>5, <2>5, Zenon DEF IInv, TypeOK
  <2>8. CallInv'
    BY <1>1, <1>5, <2>2, <2>3, <2>5, <2>6 DEF CallInv
  <2> QED BY <1>2, <2>6, <2>7, <2>8 DEF IInv, OwnerInv
<1>6. CommitError(expected, next, op) \in {"ErrConflict", "ErrInvalid", "-"}
  BY DEF CommitError
<1> QED BY <1>3, <1>4, <1>5, <1>6 DEF Commit

\* Observing changes nothing; an owner is confirmed only on clean records, and
\* then every directory a power loss may leave holds its policy.
LEMMA BootstrapKeeps ==
    ASSUME IInv, OpenBootstrap \/ Observe \/ \E known \in Docs : Confirm(known)
    PROVE  IInv'
<1>1. /\ UNCHANGED <<dir, disk, call, acked>> /\ life \in {"none", "boot"} /\ wrote' \in BOOLEAN
      /\ wrote' \in {wrote, FALSE}
  BY Zenon DEF IInv, TypeOK, OpenBootstrap, Observe, Confirm
<1>2. DiskInv' /\ AckedInv' /\ disk' \in SUBSET Dirs /\ acked' \in SUBSET Docs /\ dir' \in disk' /\ ~Busy /\ ~Busy'
  <2>1. dir' \in disk' /\ ~Busy /\ ~Busy'
    BY <1>1 DEF IInv, TypeOK, CallInv, Busy
  <2> QED BY <1>1, <2>1, FewerKeeps
<1>3. CASE life' = "boot" /\ seen' \in BOOLEAN /\ review' \in BOOLEAN /\ baseline' \in Dirs \cup {None}
           /\ ret' \in {"-", "nil", "ErrReview", "ErrInvalid"}
  <2>1. TypeOK'
    BY <1>1, <1>2, <1>3 DEF IInv, TypeOK
  <2> QED BY <1>2, <1>3, <2>1 DEF IInv, OwnerInv, CallInv
<1>4. CASE OpenBootstrap
  BY <1>3, <1>4, Zenon DEF OpenBootstrap
<1>5. CASE Observe
  <2>1. seen \in BOOLEAN /\ review \in BOOLEAN /\ baseline \in Dirs \cup {None}
    BY DEF IInv, TypeOK
  <2>2. seen' \in BOOLEAN
    BY <1>5, <2>1, Zenon DEF Observe
  <2>3. review' \in BOOLEAN
    BY <1>5, <2>1, Zenon DEF Observe
  <2>4. life' = "boot" /\ UNCHANGED baseline /\ ret' \in {"nil", "ErrReview"}
    BY <1>5 DEF Observe
  <2> QED BY <1>3, <2>1, <2>2, <2>3, <2>4
<1>6. ASSUME NEW known \in Docs, Confirm(known)
      PROVE  IInv'
  <2>1. seen' \in BOOLEAN /\ review \in BOOLEAN /\ baseline \in Dirs \cup {None} /\ life = "boot"
    BY <1>6 DEF IInv, TypeOK, Confirm
  <2>2. CASE /\ UNCHANGED <<life, baseline>> /\ review' \in {review, TRUE}
             /\ ret' \in {"ErrReview", "ErrInvalid"}
    BY <1>3, <2>1, <2>2, Zenon
  <2>3. CASE Admits(known) /\ life' = "owner" /\ baseline' = dir /\ ret' = "nil" /\ UNCHANGED review
    <3>1. dir \in Dirs /\ dir \in disk /\ Shape(dir)
      BY DEF IInv, TypeOK, DiskInv
    <3>2. Fresh(dir) \/ Complete(dir)
      BY <2>3, <3>1, KindTells DEF Admits, Eligible
    <3>3. \A d \in disk : d.current = dir.current
      <4>1. ASSUME NEW d \in disk, d.current # dir.current PROVE FALSE
        <5>1. dir.intent # None /\ dir.receipt = None
          BY <3>1, <4>1 DEF IInv, DiskInv
        <5> QED BY <3>1, <3>2, <5>1, ShapesApart DEF Fresh
      <4> QED BY <4>1
    <3>4. TypeOK'
      BY <1>1, <1>2, <2>1, <2>3, <3>1 DEF IInv, TypeOK
    <3> QED BY <1>1, <1>2, <3>3, <3>4 DEF IInv, OwnerInv, CallInv
  <2> QED BY <1>6, <2>1, <2>2, <2>3, Zenon DEF Confirm
<1> QED BY <1>4, <1>5, <1>6

\* A dead process knows nothing, and one of the directories comes back.
LEMMA DeathKeeps ==
    ASSUME IInv, Close \/ Kill \/ PowerLoss
    PROVE  IInv'
<1>1. Dies /\ disk' \subseteq disk /\ dir' \in disk' /\ UNCHANGED acked
  BY DEF IInv, TypeOK, Close, Kill, PowerLoss, Dies
<1>2. DiskInv' /\ AckedInv' /\ disk' \in SUBSET Dirs /\ acked' \in SUBSET Docs
  BY <1>1, FewerKeeps
<1>3. /\ life' = "none" /\ seen' = FALSE /\ review' = FALSE /\ baseline' = None
      /\ call' = Idle /\ ret' = "-" /\ wrote' = FALSE
  BY <1>1 DEF Dies
<1>4. ~Busy'
  BY <1>3 DEF Busy, Idle
<1>5. TypeOK'
  <2>1. seen' \in BOOLEAN /\ review' \in BOOLEAN /\ wrote' \in BOOLEAN
    BY <1>3, Zenon
  <2> QED BY <1>1, <1>2, <1>3, <2>1 DEF TypeOK
<1> QED BY <1>2, <1>3, <1>4, <1>5 DEF IInv, OwnerInv, CallInv

-----------------------------------------------------------------------------
\* The invariant holds of a provisioned directory nobody has opened.
LEMMA InitEstablishes ==
    ASSUME Init
    PROVE  IInv
<1>1. PICK d \in Docs : dir = [base |-> None, intent |-> None, current |-> d, receipt |-> None, pending |-> FALSE]
  BY Zenon DEF Init
<1>2. dir \in Dirs /\ Fresh(dir) /\ dir.current \in Docs /\ disk = {dir} /\ ~Busy
  BY <1>1 DEF Init, Dirs, Fresh, Busy, Idle
<1>3. TypeOK
  <2>1. seen \in BOOLEAN /\ review \in BOOLEAN /\ wrote \in BOOLEAN
    BY Zenon DEF Init
  <2> QED BY <1>2, <2>1 DEF Init, TypeOK
<1> QED BY <1>2, <1>3 DEF Init, IInv, DiskInv, AckedInv, OwnerInv, CallInv, Shape

\* Every step keeps it.
LEMMA NextKeeps ==
    ASSUME IInv, [Next]_vars
    PROVE  IInv'
<1>1. CASE OpenBootstrap \/ Observe \/ \E d \in Docs : Confirm(d)
  BY <1>1, BootstrapKeeps
<1>2. CASE \E r \in 1..MaxRevision, d \in Docs, op \in OperationIds : Commit(r, d, op)
  BY <1>2, CommitKeeps
<1>3. CASE RetireReceipt
  BY <1>3, RetireReceiptKeeps
<1>4. CASE RetireSync \/ SyncDir
  BY <1>4, SyncKeeps
<1>5. CASE RetireCheck \/ Check
  BY <1>5, RefreshKeeps
<1>6. CASE Stage
  BY <1>6, StageKeeps
<1>7. CASE Rename
  BY <1>7, RenameKeeps
<1>8. CASE Close \/ Kill \/ PowerLoss
  BY <1>8, DeathKeeps
<1>9. CASE UNCHANGED vars
  BY <1>9 DEF vars, IInv, TypeOK, DiskInv, AckedInv, OwnerInv, CallInv, Busy
<1> QED BY <1>1, <1>2, <1>3, <1>4, <1>5, <1>6, <1>7, <1>8, <1>9 DEF Next

\* The writer keeps its inductive invariant through any crashes.
THEOREM Invariance == Spec => []IInv
<1>1. Init => IInv
  BY InitEstablishes
<1>2. IInv /\ [Next]_vars => IInv'
  BY NextKeeps
<1> QED BY <1>1, <1>2, PTL DEF Spec

\* No acknowledged policy is lost, and what an owner serves is durable, for any
\* contents, revisions and crashes.
THEOREM PolicySurvivesHolds == Spec => []PolicySurvives
<1>1. IInv => PolicySurvives
  BY DEF IInv, AckedInv, OwnerInv, PolicySurvives
<1> QED BY <1>1, Invariance, PTL

\* What the records say is true of every directory a crash can leave.
THEOREM EvidenceTrueHolds == Spec => []EvidenceTrue
<1>1. ASSUME IInv PROVE EvidenceTrue
  <2>1. \A d \in disk : d \in Dirs /\ Shape(d)
    BY <1>1 DEF IInv, TypeOK, DiskInv
  <2>2. ASSUME NEW d \in disk, Kind(d) = "MatchingLocalRecords", NEW e \in disk
        PROVE  e.current = d.current
    <3>1. d.receipt # None
      BY <2>1, <2>2, KindTells, ShapesApart
    <3> QED BY <1>1, <3>1 DEF IInv, DiskInv
  <2>3. ASSUME NEW d \in disk, Kind(d) \in {"UnconfirmedBase", "UnconfirmedPublication"}
        PROVE  d.intent.next \notin acked
    <3>1. Intended(d) \/ Published(d)
      BY <2>1, <2>3, KindTells
    <3>2. CASE Published(d)
      BY <1>1, <3>2 DEF IInv, AckedInv, Published
    <3>3. CASE Intended(d)
      <4>1. /\ d.intent.next.rev = d.current.rev + 1 /\ d.current = d.intent.base
            /\ d.intent.next.rev \in Nat /\ d.current.rev \in Nat
        BY <3>3 DEF Intended, Follows, Records, Docs
      <4>2. \A a \in acked : a = d.current \/ a.rev < d.current.rev
        BY <1>1 DEF IInv, AckedInv
      <4>3. d.intent.next # d.current /\ ~(d.intent.next.rev < d.current.rev)
        BY <4>1
      <4> QED BY <4>2, <4>3
    <3> QED BY <3>1, <3>2, <3>3
  <2>4. ASSUME NEW d \in disk, Kind(d) = "NoRecordedOperation"
        PROVE  acked = {}
    <3>1. d.intent = None
      BY <2>1, <2>4, KindTells DEF Fresh
    <3> QED BY <1>1, <3>1 DEF IInv, AckedInv
  <2>5. ASSUME NEW d \in disk, NEW e \in disk, d.current # e.current
        PROVE  /\ d.intent # None /\ d.intent = e.intent
               /\ {d.current, e.current} = {d.intent.base, d.intent.next}
               /\ d.pending \/ Kind(d) \in {"UnconfirmedBase", "UnconfirmedPublication"}
    <3>1. d.intent # None /\ d.intent = e.intent /\ d.receipt = None /\ e.receipt = None
      BY <1>1, <2>5 DEF IInv, DiskInv
    <3>2. (Intended(d) \/ Published(d)) /\ (Intended(e) \/ Published(e))
      BY <2>1, <3>1, NoneIsNoFile DEF Shape, Fresh, Complete, Based, Follows
    <3>3. d.current \in {d.intent.base, d.intent.next} /\ e.current \in {d.intent.base, d.intent.next}
      BY <3>1, <3>2 DEF Intended, Published
    <3>4. d.pending \/ Kind(d) \in {"UnconfirmedBase", "UnconfirmedPublication"}
      BY <2>1, <3>1, <3>2, KindTells
    <3> QED BY <2>5, <3>1, <3>3, <3>4
  <2> QED BY <2>2, <2>3, <2>4, <2>5 DEF EvidenceTrue
<1> QED BY <1>1, Invariance, PTL
=============================================================================
