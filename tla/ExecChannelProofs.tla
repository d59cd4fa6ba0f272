------------------------- MODULE ExecChannelProofs -------------------------
(***************************************************************************)
(* Proofs about ExecChannel, for any number of calls and clock values.     *)
(*                                                                         *)
(* A command runs at most once, also when calls read the same clock value  *)
(* (ExecInv).  A request lives in one inode, which has a name of its tick  *)
(* at most once in its life: as the temporary file, then as the request,   *)
(* then not at all.  A command is only ever in the inode its call opened,  *)
(* so once the guest has run it, the inode is either the one it is about   *)
(* to remove or has no name that the guest looks at.                       *)
(*                                                                         *)
(* A call that is alone with its clock value gets its own answer (OwnInv): *)
(* whatever bears a tick was made by or for a call that read it (Traced),  *)
(* so nothing in such a call's files is another's (Private).  From both it *)
(* follows that the channel implements ExecService.                        *)
(***************************************************************************)
EXTENDS ExecChannel, TLAPS

\* A call that began has its tick; the guest has what its next step needs.
Placed ==
    /\ \A c \in Calls : pc[c] # "new" => seq[c] \in Ticks
    /\ gpc \notin {"scan", "dead"} => gseq \in Ticks
    /\ gpc \in {"run", "write"} => gcmd \in Contents

TypeInv == TypeOK /\ Placed

Named == {"fill", "move", "poll", "cat", "rm"} \cup Returned

\* An inode has only the names of its call's tick, and one of the two at most.
OneName ==
    /\ \A s \in Ticks : reqTmp[s] # None =>
          /\ seq[reqTmp[s]] = s /\ pc[reqTmp[s]] \in Named
          /\ reqTmp[s] # req[s]
    /\ \A s \in Ticks : req[s] # None =>
          seq[req[s]] = s /\ pc[req[s]] \in Named

\* A call writes to an inode that exists, and its command is nowhere else.
OneInode ==
    /\ \A c \in Calls : pc[c] \in {"new", "open"} => fd[c] = None
    /\ \A c \in Calls : pc[c] \in {"fill", "move"} => fd[c] \in Calls
    /\ \A c \in Calls : fd[c] # None => pc[fd[c]] \in Named
    /\ \A i \in Calls : data[i] # Torn =>
          fd[data[i]] = i /\ pc[data[i]] \notin {"new", "open", "fill"}

\* The guest has read call c's request, and may yet remove it but not read it.
Consumed(c) ==
    /\ fd[c] \in Calls /\ pc[c] \notin {"new", "open", "fill"}
    /\ reqTmp[seq[fd[c]]] # fd[c]
    /\ req[seq[fd[c]]] = fd[c] =>
          \/ gpc \in {"run", "write", "publish", "remove"} /\ gseq = seq[fd[c]]
          \/ gpc = "dead"

Ran ==
    /\ \A c \in Calls : ran[c] > 0 => Consumed(c) /\ ran[c] = 1
    /\ gpc = "run" /\ gcmd # Torn => Consumed(gcmd) /\ ran[gcmd] = 0

ExecInv == TypeInv /\ OneName /\ OneInode /\ Ran

-----------------------------------------------------------------------------
(* Type correctness. *)

USE DEF callVars, reqVars, resVars, guestVars

LEMMA TypeInit == Init => TypeInv
  BY ExecAssumption DEF Init, TypeInv, TypeOK, Placed, Contents

LEMMA TypeCall ==
    ASSUME TypeInv, NEW c \in Calls, Begin(c) \/ CallStep(c) \/ Interrupt(c)
    PROVE  TypeInv'
  <1> USE DEF TypeInv, TypeOK, Placed, To, Returned, Contents
  <1>1. CASE Begin(c)
    BY <1>1 DEF Begin
  <1>2. CASE OpenTmp(c)
    <2> DEFINE i == IF reqTmp[seq[c]] = None THEN c ELSE reqTmp[seq[c]]
    <2>1. i \in Calls /\ seq[c] \in Ticks
      BY <1>2 DEF OpenTmp
    <2> HIDE DEF i
    <2>2. /\ reqTmp' = [reqTmp EXCEPT ![seq[c]] = i]
          /\ fd' = [fd EXCEPT ![c] = i]
          /\ data' = [data EXCEPT ![i] = Torn]
      BY <1>2 DEF OpenTmp, i
    <2> QED
      BY <1>2, <2>1, <2>2 DEF OpenTmp
  <1>3. CASE FillTmp(c)
    BY <1>3 DEF FillTmp
  <1>4. CASE MoveReq(c)
    BY <1>4 DEF MoveReq
  <1>5. CASE FailWrite(c)
    BY <1>5 DEF FailWrite
  <1>6. CASE SeeAnswer(c) \/ Timeout(c)
    BY <1>6 DEF SeeAnswer, Timeout
  <1>7. CASE ReadAnswer(c)
    BY <1>7 DEF ReadAnswer
  <1>8. CASE FailRead(c)
    BY <1>8 DEF FailRead
  <1>9. CASE TakeAnswer(c) \/ FailTake(c)
    BY <1>9 DEF TakeAnswer, FailTake, Parsed
  <1>10. CASE Interrupt(c)
    BY <1>10 DEF Interrupt
  <1> QED
    BY <1>1, <1>2, <1>3, <1>4, <1>5, <1>6, <1>7, <1>8, <1>9, <1>10 DEF CallStep

LEMMA TypeGuest ==
    ASSUME TypeInv, GuestStep \/ Die
    PROVE  TypeInv'
  <1> USE DEF TypeInv, TypeOK, Placed, Contents
  <1>1. CASE Scan
    BY <1>1 DEF Scan, Waiting
  <1>2. CASE ReadReq
    BY <1>2 DEF ReadReq
  <1>3. CASE RunCmd
    BY <1>3 DEF RunCmd
  <1>4. CASE WriteRes
    BY <1>4 DEF WriteRes
  <1>5. CASE PublishRes
    BY <1>5 DEF PublishRes
  <1>6. CASE RemoveReq
    BY <1>6 DEF RemoveReq
  <1>7. CASE Die
    BY <1>7 DEF Die
  <1> QED
    BY <1>1, <1>2, <1>3, <1>4, <1>5, <1>6, <1>7 DEF GuestStep

LEMMA TypeStep == TypeInv /\ [Next]_vars => TypeInv'
  <1> SUFFICES ASSUME TypeInv, [Next]_vars PROVE TypeInv'
    OBVIOUS
  <1>1. CASE UNCHANGED vars
    BY <1>1 DEF vars, TypeInv, TypeOK, Placed
  <1> QED
    BY <1>1, TypeCall, TypeGuest DEF Next

\* Every variable keeps its type, and the guest never reads a request that is
\* not there.
THEOREM ExecTypeCorrect == Spec => []TypeOK
  <1>1. TypeInv => TypeOK
    BY DEF TypeInv
  <1> QED
    BY <1>1, TypeInit, TypeStep, PTL DEF Spec

-----------------------------------------------------------------------------
(* At most once. *)

LEMMA InvInit == Init => ExecInv
  <1> SUFFICES ASSUME Init PROVE ExecInv
    OBVIOUS
  <1>1. TypeInv
    BY TypeInit
  <1>2. OneName /\ OneInode
    BY ExecAssumption DEF Init, OneName, OneInode
  <1>3. Ran
    BY DEF Init, Ran
  <1> QED
    BY <1>1, <1>2, <1>3 DEF ExecInv

\* What a step of call c leaves of the invariant's parts that do not mention c:
\* the steps after the request was moved, or failed to be, touch none of them.
LEMMA InvLate ==
    ASSUME ExecInv, NEW c \in Calls, TypeInv',
           UNCHANGED <<seq, fd, reqVars, guestVars, ran>>,
           pc[c] # "new", NEW l \in Named \ {"fill", "move"}, To(c, l)
    PROVE  ExecInv'
  <1> USE DEF ExecInv, TypeInv, TypeOK, To, Named, Returned
  <1>1. \A d \in Calls : pc'[d] = IF d = c THEN l ELSE pc[d]
    OBVIOUS
  <1>2. OneName'
    BY <1>1 DEF OneName
  <1>3. OneInode'
    BY <1>1 DEF OneInode, Contents
  <1>4. Ran'
    BY <1>1 DEF Ran, Consumed, Contents
  <1> QED
    BY <1>2, <1>3, <1>4

LEMMA InvBegin ==
    ASSUME ExecInv, NEW c \in Calls, TypeInv', Begin(c)
    PROVE  ExecInv'
  <1> USE ExecAssumption DEF ExecInv, TypeInv, TypeOK, To, Begin, Named, Returned
  <1>1. OneName'
    BY DEF OneName
  <1>2. OneInode'
    BY DEF OneInode, Contents
  <1>3. \A d \in Calls : Consumed(d) => Consumed(d)'
    BY DEF Consumed, OneInode, Contents
  <1>4. Ran'
    BY <1>3 DEF Ran, Placed, Contents
  <1> QED
    BY <1>1, <1>2, <1>4

LEMMA InvOpen ==
    ASSUME ExecInv, NEW c \in Calls, TypeInv', OpenTmp(c)
    PROVE  ExecInv'
  <1> USE ExecAssumption DEF ExecInv, TypeInv, TypeOK, To, Named, Returned
  <1> DEFINE s == seq[c]
             i == IF reqTmp[s] = None THEN c ELSE reqTmp[s]
  <1>1. s \in Ticks /\ i \in Calls
    BY DEF OpenTmp, Placed
  <1>2. pc[c] = "open" /\ fd[c] = None
    BY DEF OpenTmp, OneInode
  <1>3. i = c \/ (reqTmp[s] = i /\ seq[i] = s /\ pc[i] \in Named)
    BY <1>1 DEF OneName
  <1>4. i = c => reqTmp[s] = None
    BY <1>1, <1>2 DEF OneName
  <1> HIDE DEF i
  <1>5. /\ reqTmp' = [reqTmp EXCEPT ![s] = i]
        /\ fd' = [fd EXCEPT ![c] = i]
        /\ data' = [data EXCEPT ![i] = Torn]
        /\ pc' = [pc EXCEPT ![c] = "fill"]
        /\ UNCHANGED <<seq, req, guestVars, ran>>
    BY DEF OpenTmp, i
  <1> HIDE DEF s
  <1>6. s = seq[c] BY DEF s
  <1>7. OneName'
    BY <1>1, <1>2, <1>3, <1>4, <1>5, <1>6 DEF OneName
  <1>8. OneInode'
    BY <1>1, <1>2, <1>3, <1>5, <1>6 DEF OneInode, Contents
  <1>9. \A d \in Calls : Consumed(d) => Consumed(d)'
    BY <1>1, <1>2, <1>3, <1>4, <1>5, <1>6 DEF Consumed, OneInode, Contents
  <1>10. Ran'
    BY <1>5, <1>9 DEF Ran, Placed, Contents
  <1> QED
    BY <1>7, <1>8, <1>10

LEMMA InvFill ==
    ASSUME ExecInv, NEW c \in Calls, TypeInv', FillTmp(c)
    PROVE  ExecInv'
  <1> USE ExecAssumption DEF ExecInv, TypeInv, TypeOK, To, FillTmp, Named, Returned
  <1>1. OneName'
    BY DEF OneName
  <1>2. OneInode'
    BY DEF OneInode, Contents
  <1>3. Ran'
    BY DEF Ran, Consumed, Contents
  <1> QED
    BY <1>1, <1>2, <1>3

LEMMA InvMove ==
    ASSUME ExecInv, NEW c \in Calls, TypeInv', MoveReq(c)
    PROVE  ExecInv'
  <1> USE ExecAssumption DEF ExecInv, TypeInv, TypeOK, Placed, To, MoveReq, Named, Returned
  <1>1. OneName'
    BY DEF OneName
  <1>2. OneInode'
    BY DEF OneInode, Contents
  <1>3. ASSUME NEW d \in Calls, Consumed(d)
        PROVE  Consumed(d)'
    <2>1. fd[d] \in Calls /\ seq[fd[d]] \in Ticks /\ seq[c] \in Ticks
      BY <1>3 DEF Consumed, OneInode
    <2>2. \A t \in Ticks : /\ reqTmp'[t] \in {reqTmp[t], None}
                           /\ req'[t] \in {req[t], reqTmp[t]}
      BY <2>1
    <2>3. reqTmp[seq[fd[d]]] # fd[d]
      BY <1>3 DEF Consumed
    <2>4. /\ reqTmp'[seq[fd[d]]] # fd[d]
          /\ req'[seq[fd[d]]] = fd[d] => req[seq[fd[d]]] = fd[d]
      BY ONLY ExecAssumption, <2>1, <2>2, <2>3
    <2>5. pc'[d] \notin {"new", "open", "fill"}
      BY <1>3 DEF Consumed
    <2> QED
      BY <1>3, <2>1, <2>4, <2>5 DEF Consumed
  <1>4. Ran'
    BY <1>3 DEF Ran, Contents
  <1> QED
    BY <1>1, <1>2, <1>4

LEMMA InvCall ==
    ASSUME ExecInv, NEW c \in Calls, Begin(c) \/ CallStep(c) \/ Interrupt(c)
    PROVE  ExecInv'
  <1>1. TypeInv'
    BY TypeCall DEF ExecInv
  <1>2. CASE Begin(c)
    BY <1>1, <1>2, InvBegin
  <1>3. CASE OpenTmp(c)
    BY <1>1, <1>3, InvOpen
  <1>4. CASE FillTmp(c)
    BY <1>1, <1>4, InvFill
  <1>5. CASE MoveReq(c)
    BY <1>1, <1>5, InvMove
  <1>6. CASE FailWrite(c) \/ SeeAnswer(c) \/ Timeout(c) \/ ReadAnswer(c)
             \/ FailRead(c) \/ TakeAnswer(c) \/ FailTake(c) \/ Interrupt(c)
    <2>1. /\ pc[c] # "new"
          /\ UNCHANGED <<seq, fd, reqVars, guestVars, ran>>
          /\ \E l \in Named \ {"fill", "move"} : To(c, l)
      BY <1>6 DEF FailWrite, SeeAnswer, Timeout, ReadAnswer, FailRead, TakeAnswer,
                  FailTake, Interrupt, Parsed, Named, Returned
    <2> QED
      BY <1>1, <2>1, InvLate
  <1> QED
    BY <1>2, <1>3, <1>4, <1>5, <1>6 DEF CallStep

LEMMA InvGuest ==
    ASSUME ExecInv, GuestStep \/ Die
    PROVE  ExecInv'
  <1> USE ExecAssumption DEF ExecInv, TypeInv, TypeOK
  <1>1. TypeInv'
    BY TypeGuest
  <1>2. CASE Scan
    BY <1>1, <1>2 DEF Scan, OneName, OneInode, Ran, Consumed
  <1>3. CASE ReadReq
    <2>1. OneName' /\ OneInode'
      BY <1>3 DEF ReadReq, OneName, OneInode
    <2>2. req[gseq] \in Calls /\ gseq \in Ticks /\ seq[req[gseq]] = gseq
      BY <1>3 DEF ReadReq, OneName
    <2>3. ASSUME gcmd' # Torn
          PROVE  Consumed(gcmd)' /\ ran'[gcmd'] = 0
      <3>1. gcmd' \in Calls /\ fd[gcmd'] = req[gseq]
            /\ pc[gcmd'] \notin {"new", "open", "fill"}
        BY <1>3, <2>2, <2>3 DEF ReadReq, OneInode, Contents
      <3>2. reqTmp[gseq] # req[gseq]
        BY <2>2 DEF OneName
      <3>3. ran[gcmd'] = 0
        BY <1>3, <2>2, <3>1 DEF ReadReq, Ran, Consumed
      <3> QED
        BY <1>3, <2>2, <3>1, <3>2, <3>3 DEF ReadReq, Consumed
    <2>4. Ran'
      BY <1>3, <2>3 DEF ReadReq, Ran, Consumed
    <2> QED
      BY <1>1, <2>1, <2>4
  <1>4. CASE RunCmd
    <2>1. OneName' /\ OneInode'
      BY <1>4 DEF RunCmd, OneName, OneInode
    <2>2. Ran'
      BY <1>4 DEF RunCmd, Ran, Consumed, Placed, Contents
    <2> QED
      BY <1>1, <2>1, <2>2
  <1>5. CASE WriteRes \/ PublishRes
    BY <1>1, <1>5 DEF WriteRes, PublishRes, OneName, OneInode, Ran, Consumed
  <1>6. CASE RemoveReq
    <2>1. OneName' /\ OneInode'
      BY <1>6 DEF RemoveReq, OneName, OneInode
    <2>2. Ran'
      BY <1>6 DEF RemoveReq, Ran, Consumed, Placed
    <2> QED
      BY <1>1, <2>1, <2>2
  <1>7. CASE Die
    BY <1>1, <1>7 DEF Die, OneName, OneInode, Ran, Consumed
  <1> QED
    BY <1>2, <1>3, <1>4, <1>5, <1>6, <1>7 DEF GuestStep

LEMMA InvStep == ExecInv /\ [Next]_vars => ExecInv'
  <1> SUFFICES ASSUME ExecInv, [Next]_vars PROVE ExecInv'
    OBVIOUS
  <1>1. CASE UNCHANGED vars
    <2>1. TypeInv'
      BY TypeStep DEF ExecInv
    <2> QED
      BY <1>1, <2>1 DEF vars, ExecInv, OneName, OneInode, Ran, Consumed
  <1> QED
    BY <1>1, InvCall, InvGuest DEF Next

\* However many calls read the same clock value, and wherever the calls and the
\* guest are interrupted, no command runs twice.
THEOREM ExecAtMostOnce == Spec => []AtMostOnce
  <1>1. ExecInv => AtMostOnce
    BY DEF ExecInv, TypeInv, TypeOK, Ran, AtMostOnce
  <1> QED
    BY <1>1, InvInit, InvStep, PTL DEF Spec

-----------------------------------------------------------------------------
(* The answer is the call's own, if no other call read its clock value. *)

\* What bears a tick was made by, or for, a call that has it, and the guest's
\* request is there until the guest removes it.
Traced ==
    /\ \A c \in Calls : pc[c] = "new" => seq[c] = None /\ got[c] = None
    /\ \A c \in Calls : fd[c] # None => seq[fd[c]] = seq[c]
    /\ \A s \in Ticks : res[s] # None \/ resTmp[s] # None \/ gseq = s =>
          \E d \in Calls : seq[d] = s
    /\ gpc \notin {"scan", "dead"} => req[gseq] \in Calls
    /\ gpc \in {"scan", "read"} => gcmd = None
    /\ gcmd # None => gseq \in Ticks
    /\ gcmd \in Calls => seq[gcmd] = gseq

\* The files of a call that is alone with its tick hold its command and the
\* answer to it, one of them from the time the command ran to the time the call
\* has the answer ...
Past == {"rm"} \cup Returned
Answered(c) ==
    /\ pc[c] = "move" \/ req[seq[c]] = c => data[c] = c
    /\ {res[seq[c]], resTmp[seq[c]], got[c]} \subseteq {None, c}
    /\ c \in {res[seq[c]], resTmp[seq[c]], got[c]} => ran[c] > 0
    /\ pc[c] = "ok" => got[c] = c
    /\ ran[c] > 0 => req[seq[c]] = c \/ res[seq[c]] = c \/ pc[c] \in Past

\* ... and a guest that serves its tick serves it.
Serving(c) == gseq = seq[c] =>
    /\ gcmd \in {None, c}
    /\ gpc \in {"run", "write", "publish", "remove"} => gcmd = c
    /\ gpc \in {"write", "publish", "remove"} => ran[c] > 0
    /\ gpc = "publish" => resTmp[gseq] = c
    /\ gpc = "remove" => res[gseq] = c \/ pc[c] \in Past

Private ==
    \A c \in Calls : pc[c] # "new" /\ Unique(c) => Answered(c) /\ Serving(c)

OwnInv == ExecInv /\ Traced /\ Private

LEMMA OwnInit == Init => OwnInv
  BY InvInit, ExecAssumption DEF Init, OwnInv, Traced, Private

\* A call that is alone with its tick is alone with its inode and its names.
LEMMA OwnFiles ==
    ASSUME ExecInv, Traced, NEW d \in Calls, pc[d] # "new", Unique(d)
    PROVE  /\ seq[d] \in Ticks
           /\ reqTmp[seq[d]] \in {None, d} /\ req[seq[d]] \in {None, d}
           /\ fd[d] \in {None, d}
           /\ \A c \in Calls \ {d} : fd[c] # d
           /\ gcmd = d => gseq = seq[d]
  <1>1. seq[d] \in Ticks
    BY DEF ExecInv, TypeInv, Placed
  <1>2. reqTmp[seq[d]] \in {None, d} /\ req[seq[d]] \in {None, d}
    BY <1>1 DEF ExecInv, TypeInv, TypeOK, OneName, Unique
  <1>3. \A c \in Calls : fd[c] \in Calls \cup {None}
    BY DEF ExecInv, TypeInv, TypeOK
  <1>4. fd[d] \in {None, d} /\ \A c \in Calls \ {d} : fd[c] # d
    BY <1>3, ExecAssumption DEF Traced, Unique
  <1> QED
    BY <1>1, <1>2, <1>4 DEF Traced

LEMMA TracedCall ==
    ASSUME OwnInv, NEW c \in Calls, Begin(c) \/ CallStep(c) \/ Interrupt(c)
    PROVE  Traced'
  <1>a. TypeInv /\ TypeOK /\ Traced /\ seq[c] \in Ticks \cup {None}
        /\ (pc[c] # "new" => seq[c] \in Ticks)
    BY DEF OwnInv, ExecInv, TypeInv, TypeOK, Placed
  <1> USE DEF To
  <1>1. CASE Begin(c)
    <2>1. /\ seq[c] = None /\ fd[c] = None
          /\ \A d \in Calls : d # c => seq'[d] = seq[d] /\ pc'[d] = pc[d]
          /\ pc'[c] = "open" /\ UNCHANGED <<fd, got, req, res, resTmp, gpc, gseq, gcmd>>
      BY <1>1, <1>a DEF Begin, Traced, OwnInv, ExecInv, OneInode, TypeOK
    <2>2. \A d \in Calls : fd[d] # None => fd[d] \in Calls /\ fd[d] # c
      BY <1>1, <1>a DEF Begin, OwnInv, ExecInv, OneInode, TypeOK, Named, Returned
    <2>3. gcmd # c
      BY <1>a, <2>1, ExecAssumption DEF Traced
    <2>4. \A s \in Ticks : (\E d \in Calls : seq[d] = s) => \E d \in Calls : seq'[d] = s
      BY <2>1, ExecAssumption
    <2> QED
      BY <1>a, <2>1, <2>2, <2>3, <2>4 DEF Traced
  <1>2. CASE OpenTmp(c)
    <2>1. fd'[c] \in Calls /\ seq[fd'[c]] = seq[c]
      BY <1>2, <1>a DEF OpenTmp, OwnInv, ExecInv, OneName, TypeOK
    <2> QED
      BY <1>2, <1>a, <2>1 DEF OpenTmp, Traced, TypeOK
  <1>3. CASE MoveReq(c)
    <2>1. \A s \in Ticks : req[s] \in Calls => req'[s] \in Calls
      BY <1>3, <1>a, ExecAssumption DEF MoveReq, TypeOK
    <2> QED
      BY <1>3, <1>a, <2>1 DEF MoveReq, Traced, TypeOK, TypeInv, Placed
  <1>4. CASE TakeAnswer(c)
    BY <1>4, <1>a DEF TakeAnswer, Parsed, Traced, TypeOK
  <1>5. CASE \/ FillTmp(c) \/ FailWrite(c) \/ SeeAnswer(c) \/ Timeout(c) \/ ReadAnswer(c)
             \/ FailRead(c) \/ FailTake(c) \/ Interrupt(c)
    <2>1. /\ UNCHANGED <<seq, fd, req, res, resTmp, gpc, gseq, gcmd>>
          /\ \A d \in Calls : pc'[d] = "new" => pc[d] = "new" /\ got'[d] = got[d]
      BY <1>5, <1>a DEF FillTmp, FailWrite, SeeAnswer, Timeout, ReadAnswer, FailRead,
                        FailTake, Interrupt, Parsed, TypeOK, Returned
    <2> QED
      BY <1>a, <2>1 DEF Traced
  <1> QED
    BY <1>1, <1>2, <1>3, <1>4, <1>5 DEF CallStep

LEMMA TracedGuest ==
    ASSUME OwnInv, GuestStep \/ Die
    PROVE  Traced'
  <1>a. TypeInv /\ TypeOK /\ Traced /\ UNCHANGED callVars
    BY DEF OwnInv, ExecInv, TypeInv, GuestStep, Scan, ReadReq, RunCmd, WriteRes,
           PublishRes, RemoveReq, Die
  <1>1. CASE Scan
    <2>1. gseq' \in Ticks /\ req[gseq'] # None
      BY <1>1 DEF Scan, Waiting
    <2>2. req[gseq'] \in Calls /\ seq[req[gseq']] = gseq'
      BY <1>a, <2>1 DEF OwnInv, ExecInv, OneName, TypeOK
    <2>3. gcmd' = None
      BY <1>1, <1>a DEF Scan, Traced
    <2> QED
      BY <1>1, <1>a, <2>1, <2>2, <2>3, ExecAssumption DEF Scan, Traced
  <1>2. CASE ReadReq
    <2>1. gseq \in Ticks /\ req[gseq] \in Calls /\ seq[req[gseq]] = gseq
      BY <1>2, <1>a, ExecAssumption DEF ReadReq, TypeOK, OwnInv, ExecInv, OneName
    <2>2. gcmd' \in Calls => seq[gcmd'] = gseq
      <3>1. gcmd' \in Calls => fd[gcmd'] = req[gseq]
        BY <1>2, <2>1, ExecAssumption DEF ReadReq, OwnInv, ExecInv, OneInode
      <3> QED
        BY <1>a, <2>1, <3>1, ExecAssumption DEF Traced
    <2> QED
      BY <1>2, <1>a, <2>1, <2>2 DEF ReadReq, Traced
  <1>3. CASE RunCmd
    BY <1>3, <1>a DEF RunCmd, Traced
  <1>4. CASE WriteRes \/ PublishRes
    <2>1. gseq \in Ticks
      BY <1>4, <1>a DEF WriteRes, PublishRes, TypeInv, Placed
    <2>2. \A s \in Ticks : res'[s] # None \/ resTmp'[s] # None =>
             s = gseq \/ res[s] # None \/ resTmp[s] # None
      BY <1>4, <1>a, <2>1 DEF WriteRes, PublishRes, TypeOK
    <2> QED
      BY <1>4, <1>a, <2>1, <2>2 DEF WriteRes, PublishRes, Traced
  <1>5. CASE RemoveReq
    BY <1>5, <1>a, ExecAssumption DEF RemoveReq, Traced
  <1>6. CASE Die
    BY <1>6, <1>a DEF Die, Traced
  <1> QED
    BY <1>1, <1>2, <1>3, <1>4, <1>5, <1>6 DEF GuestStep

\* A call that steps leaves alone the files of a call that is alone with another
\* tick.
LEMMA PrivateOther ==
    ASSUME OwnInv, NEW c \in Calls, Begin(c) \/ CallStep(c) \/ Interrupt(c),
           NEW d \in Calls \ {c}, pc[d] # "new", Unique(d)'
    PROVE  Answered(d)' /\ Serving(d)'
  <1>a. TypeInv /\ TypeOK /\ Traced
    BY DEF OwnInv, ExecInv, TypeInv
  <1>1. /\ pc'[d] = pc[d] /\ seq'[d] = seq[d] /\ got'[d] = got[d]
        /\ UNCHANGED <<resTmp, guestVars, ran>>
    BY <1>a DEF CallStep, Begin, OpenTmp, FillTmp, MoveReq, FailWrite, SeeAnswer, Timeout,
                ReadAnswer, FailRead, TakeAnswer, FailTake, Interrupt, To, TypeOK
  <1>2. \A x \in Calls : pc[x] # "new" => seq'[x] = seq[x]
    BY <1>a DEF CallStep, Begin, OpenTmp, FillTmp, MoveReq, FailWrite, SeeAnswer, Timeout,
                ReadAnswer, FailRead, TakeAnswer, FailTake, Interrupt, TypeOK
  <1>3. \A x \in Calls : pc[x] = "new" => seq[x] = None
    BY <1>a DEF Traced
  <1>4. seq[d] \in Ticks
    BY <1>a DEF TypeInv, Placed
  <1>5. Unique(d)
    <2>1. ASSUME NEW x \in Calls \ {d} PROVE seq[x] # seq[d]
      <3>1. CASE pc[x] = "new"
        BY <1>3, <1>4, <3>1, ExecAssumption
      <3>2. CASE pc[x] # "new"
        BY <1>1, <1>2, <3>2 DEF Unique
      <3> QED
        BY <3>1, <3>2
    <2> QED
      BY <2>1 DEF Unique
  <1>6. Answered(d) /\ Serving(d)
    BY <1>5 DEF OwnInv, Private
  <1>7. seq[c] # seq[d]
    BY <1>5 DEF Unique
  <1>8. fd[c] # d /\ \A s \in Ticks \ {seq[d]} : reqTmp[s] # d
    <2>1. fd[c] # d
      BY <1>a, <1>5, OwnFiles DEF OwnInv
    <2> QED
      BY <2>1, ExecAssumption DEF OwnInv, ExecInv, OneName
  <1>9. req'[seq[d]] = req[seq[d]] /\ res'[seq[d]] = res[seq[d]]
    BY <1>a, <1>4, <1>7
       DEF CallStep, Begin, OpenTmp, FillTmp, MoveReq, FailWrite, SeeAnswer, Timeout,
           ReadAnswer, FailRead, TakeAnswer, FailTake, Interrupt, TypeOK
  <1>10. data'[d] = data[d]
    <2>1. CASE OpenTmp(c)
      <3>1. seq[c] \in Ticks
        BY <1>a, <2>1 DEF OpenTmp, TypeInv, Placed
      <3>2. \E i \in Calls \ {d} : data' = [data EXCEPT ![i] = Torn]
        BY <1>a, <1>7, <1>8, <2>1, <3>1 DEF OpenTmp, TypeOK
      <3> QED
        BY <1>a, <3>2 DEF TypeOK
    <2>2. CASE FillTmp(c)
      BY <1>a, <1>8, <2>2 DEF FillTmp, TypeOK
    <2>3. CASE ~OpenTmp(c) /\ ~FillTmp(c)
      BY <2>3 DEF CallStep, Begin, MoveReq, FailWrite, SeeAnswer, Timeout,
                  ReadAnswer, FailRead, TakeAnswer, FailTake, Interrupt
    <2> QED
      BY <2>1, <2>2, <2>3
  <1> QED
    BY <1>1, <1>6, <1>9, <1>10 DEF Answered, Serving

\* What a call's own step does to its files, once they are its alone.
LEMMA PrivateOwn ==
    ASSUME OwnInv, NEW c \in Calls, CallStep(c) \/ Interrupt(c), Unique(c)'
    PROVE  Answered(c)' /\ Serving(c)'
  <1>a. TypeInv /\ TypeOK /\ Traced /\ ExecInv
    BY DEF OwnInv, ExecInv, TypeInv
  <1>b. pc[c] # "new" /\ UNCHANGED <<seq, resTmp, guestVars, ran>>
    BY DEF CallStep, OpenTmp, FillTmp, MoveReq, FailWrite, SeeAnswer, Timeout, ReadAnswer,
           FailRead, TakeAnswer, FailTake, Interrupt, Returned
  <1>c. Unique(c)
    BY <1>b DEF Unique
  <1>d. Answered(c) /\ Serving(c)
    BY <1>b, <1>c DEF OwnInv, Private
  <1> PICK s \in Ticks : s = seq[c]
    BY <1>a, <1>b DEF TypeInv, Placed
  <1>e. /\ reqTmp[s] \in {None, c} /\ req[s] \in {None, c} /\ fd[c] \in {None, c}
    BY <1>a, <1>b, <1>c, OwnFiles
  <1>f. gseq = s /\ gpc = "remove" /\ pc[c] \in Past => pc'[c] \in Past
    BY <1>a DEF CallStep, OpenTmp, FillTmp, MoveReq, FailWrite, SeeAnswer, Timeout,
                ReadAnswer, FailRead, TakeAnswer, FailTake, Interrupt, Parsed, To, TypeOK,
                Past, Returned
  <1>1. CASE OpenTmp(c)
    <2>1. req[s] = None /\ ran[c] = 0
      <3>1. req[s] # c
        BY <1>1, <1>a, ExecAssumption DEF OpenTmp, ExecInv, OneName, Named, Returned
      <3>2. ~Consumed(c)
        BY <1>1 DEF OpenTmp, Consumed
      <3> QED
        BY <1>a, <1>e, <3>1, <3>2 DEF ExecInv, Ran, TypeOK
    <2>2. pc'[c] = "fill" /\ UNCHANGED <<seq, got, req, resVars, guestVars, ran>>
      BY <1>1, <1>a DEF OpenTmp, To, TypeOK
    <2> QED
      BY <1>1, <1>a, <1>d, <2>1, <2>2, ExecAssumption
         DEF OpenTmp, Answered, Serving, Past, Returned
  <1>2. CASE FillTmp(c)
    <2>1. fd[c] = c /\ data'[c] = c
      BY <1>2, <1>a, <1>e, ExecAssumption DEF FillTmp, ExecInv, OneInode, TypeOK
    <2>2. /\ pc'[c] = "move" /\ pc[c] = "fill"
          /\ UNCHANGED <<seq, got, req, resVars, guestVars, ran>>
      BY <1>2, <1>a DEF FillTmp, To, TypeOK
    <2> QED
      BY <1>d, <2>1, <2>2 DEF Answered, Serving, Past, Returned
  <1>3. CASE MoveReq(c)
    <2>1. data[c] = c /\ data'[c] = c
      BY <1>3, <1>d DEF MoveReq, Answered
    <2>2. req'[s] \in {req[s], c}
      BY <1>3, <1>a, <1>e DEF MoveReq, TypeOK
    <2>3. /\ pc'[c] = "poll" /\ pc[c] = "move"
          /\ UNCHANGED <<seq, got, resVars, guestVars, ran>>
      BY <1>3, <1>a DEF MoveReq, To, TypeOK
    <2> QED
      BY <1>d, <2>1, <2>2, <2>3 DEF Answered, Serving, Past, Returned
  <1>4. CASE ReadAnswer(c) \/ FailRead(c)
    <2>1. /\ pc'[c] \in {"rm", "error"} /\ got'[c] \in {got[c], res[s]}
          /\ UNCHANGED <<seq, reqVars, resVars, guestVars, ran>>
      BY <1>4, <1>a DEF ReadAnswer, FailRead, To, TypeOK
    <2> QED
      BY <1>d, <2>1 DEF Answered, Serving, Past, Returned
  <1>5. CASE TakeAnswer(c) \/ FailTake(c)
    <2>1. /\ pc[c] = "rm" /\ pc'[c] \in {"ok", "error"} /\ res'[s] \in {res[s], None}
          /\ pc'[c] = "ok" => got[c] # None
          /\ UNCHANGED <<seq, got, reqVars, resTmp, guestVars, ran>>
      BY <1>5, <1>a DEF TakeAnswer, FailTake, Parsed, To, TypeOK
    <2>2. c # None
      BY ExecAssumption
    <2> QED
      BY <1>d, <2>1, <2>2 DEF Answered, Serving, Past, Returned
  <1>6. CASE \/ FailWrite(c) \/ SeeAnswer(c) \/ Timeout(c) \/ Interrupt(c)
    <2>1. /\ UNCHANGED <<seq, got, reqVars, resVars, guestVars, ran>>
          /\ pc'[c] \notin {"move", "ok"}
          /\ pc[c] \in Past => pc'[c] \in Past
      BY <1>6, <1>a DEF FailWrite, SeeAnswer, Timeout, Interrupt, To, TypeOK, Past,
                        Returned
    <2> QED
      BY <1>d, <2>1 DEF Answered, Serving
  <1> QED
    BY <1>1, <1>2, <1>3, <1>4, <1>5, <1>6 DEF CallStep

\* A call that begins alone with its tick finds no file of it.
LEMMA PrivateBegin ==
    ASSUME OwnInv, NEW c \in Calls, Begin(c), Unique(c)'
    PROVE  Answered(c)' /\ Serving(c)'
  <1>a. TypeInv /\ TypeOK /\ Traced /\ ExecInv
    BY DEF OwnInv, ExecInv, TypeInv
  <1>1. /\ seq'[c] \in Ticks /\ pc[c] = "new" /\ pc'[c] = "open"
        /\ UNCHANGED <<fd, got, reqVars, resVars, guestVars, ran>>
        /\ \A d \in Calls \ {c} : seq[d] # seq'[c]
    BY <1>a DEF Begin, To, TypeOK, Unique
  <1>2. \A d \in Calls : seq[d] # seq'[c]
    BY <1>a, <1>1, ExecAssumption DEF Traced
  <1>3. /\ res[seq'[c]] = None /\ resTmp[seq'[c]] = None /\ gseq # seq'[c]
        /\ req[seq'[c]] = None
    BY <1>a, <1>1, <1>2 DEF Traced, ExecInv, OneName, TypeOK
  <1>4. ran[c] = 0
    BY <1>a, <1>1 DEF ExecInv, Ran, Consumed, TypeOK
  <1>5. got[c] = None
    BY <1>a, <1>1 DEF Traced
  <1> QED
    BY <1>1, <1>3, <1>4, <1>5, ExecAssumption DEF Answered, Serving

LEMMA PrivateGuest ==
    ASSUME OwnInv, GuestStep \/ Die, NEW c \in Calls, pc[c] # "new", Unique(c)
    PROVE  Answered(c)' /\ Serving(c)'
  <1>a. TypeInv /\ TypeOK /\ Traced /\ ExecInv /\ UNCHANGED <<callVars, data, reqTmp>>
    BY DEF OwnInv, ExecInv, TypeInv, GuestStep, Scan, ReadReq, RunCmd, WriteRes,
           PublishRes, RemoveReq, Die
  <1>b. Answered(c) /\ Serving(c)
    BY DEF OwnInv, Private
  <1> PICK s \in Ticks : s = seq[c]
    BY <1>a DEF TypeInv, Placed
  <1>c. /\ reqTmp[s] \in {None, c} /\ req[s] \in {None, c} /\ fd[c] \in {None, c}
        /\ gcmd = c => gseq = s
    BY <1>a, OwnFiles
  <1>d. c # None /\ c # Torn
    BY ExecAssumption
  <1>e. gseq = s /\ gpc \notin {"scan", "dead"} => req[s] = c
    BY <1>a, <1>c, ExecAssumption DEF Traced
  <1>1. CASE Scan
    <2>1. gpc' = "read" /\ gcmd' = None /\ UNCHANGED <<req, resVars, ran>>
      BY <1>1, <1>a DEF Scan, Traced
    <2> QED
      BY <1>a, <1>b, <2>1 DEF Answered, Serving
  <1>2. CASE ReadReq
    <2>1. /\ gpc = "read" /\ gpc' = "run" /\ gcmd' = data[req[gseq]]
          /\ UNCHANGED <<req, resVars, gseq, ran>>
      BY <1>2 DEF ReadReq
    <2>2. gseq = s => gcmd' = c
      BY <1>b, <1>e, <2>1 DEF Answered
    <2> QED
      BY <1>a, <1>b, <2>1, <2>2 DEF Answered, Serving
  <1>3. CASE RunCmd
    <2>1. /\ gpc = "run" /\ gpc' = "write" /\ UNCHANGED <<req, resVars, gseq, gcmd>>
          /\ ran'[c] = IF c = gcmd THEN ran[c] + 1 ELSE ran[c]
      BY <1>3 DEF RunCmd
    <2>2. ran[c] \in Nat
      BY <1>a DEF TypeOK
    <2>3. (ran[c] > 0 => ran'[c] > 0) /\ (gseq = s => ran'[c] > 0)
      BY <1>b, <2>1, <2>2 DEF Serving
    <2>4. ran'[c] > 0 => ran[c] > 0 \/ req[s] = c
      BY <1>c, <1>e, <2>1, <2>2
    <2> QED
      BY <1>a, <1>b, <2>1, <2>3, <2>4 DEF Answered, Serving
  <1>4. CASE WriteRes
    <2>1. /\ gpc = "write" /\ gpc' = "publish"
          /\ UNCHANGED <<req, res, gseq, gcmd, ran>>
          /\ resTmp'[s] = IF gseq = s THEN gcmd ELSE resTmp[s]
      BY <1>4, <1>a DEF WriteRes, TypeOK
    <2> QED
      BY <1>a, <1>b, <2>1 DEF Answered, Serving
  <1>5. CASE PublishRes
    <2>1. /\ gpc = "publish" /\ gpc' = "remove" /\ UNCHANGED <<req, gseq, gcmd, ran>>
          /\ res'[s] = IF gseq = s THEN resTmp[s] ELSE res[s]
          /\ resTmp'[s] = IF gseq = s THEN None ELSE resTmp[s]
      BY <1>5, <1>a DEF PublishRes, TypeOK
    <2> QED
      BY <1>a, <1>b, <1>d, <2>1 DEF Answered, Serving
  <1>6. CASE RemoveReq
    <2>1. /\ gpc = "remove" /\ gpc' = "scan" /\ gseq' = None /\ gcmd' = None
          /\ UNCHANGED <<resVars, ran>>
          /\ req'[s] = IF gseq = s THEN None ELSE req[s]
      BY <1>6, <1>a DEF RemoveReq, TypeOK
    <2>2. s # None
      BY ExecAssumption
    <2> QED
      BY <1>a, <1>b, <1>d, <2>1, <2>2 DEF Answered, Serving
  <1>7. CASE Die
    <2>1. gpc' = "dead" /\ UNCHANGED <<req, resVars, gseq, gcmd, ran>>
      BY <1>7 DEF Die
    <2> QED
      BY <1>a, <1>b, <2>1 DEF Answered, Serving
  <1> QED
    BY <1>1, <1>2, <1>3, <1>4, <1>5, <1>6, <1>7 DEF GuestStep

LEMMA OwnStep == OwnInv /\ [Next]_vars => OwnInv'
  <1> SUFFICES ASSUME OwnInv, [Next]_vars PROVE OwnInv'
    OBVIOUS
  <1>a. ExecInv' /\ TypeInv /\ TypeOK
    BY InvStep DEF OwnInv, ExecInv, TypeInv
  <1>1. CASE UNCHANGED vars
    BY <1>1, <1>a DEF vars, OwnInv, Traced, Private, Unique, Answered, Serving
  <1>2. ASSUME NEW c \in Calls, Begin(c) \/ CallStep(c) \/ Interrupt(c)
        PROVE  OwnInv'
    <2>1. ASSUME NEW d \in Calls, pc'[d] # "new", Unique(d)'
          PROVE  Answered(d)' /\ Serving(d)'
      <3>1. CASE d = c
        BY <1>2, <2>1, <3>1, PrivateBegin, PrivateOwn
      <3>2. CASE d # c
        <4>1. pc[d] # "new"
          BY <1>a, <1>2, <2>1, <3>2
             DEF CallStep, Begin, OpenTmp, FillTmp, MoveReq, FailWrite, SeeAnswer,
                 Timeout, ReadAnswer, FailRead, TakeAnswer, FailTake, Interrupt, To,
                 TypeOK
        <4> QED
          BY <1>2, <2>1, <3>2, <4>1, PrivateOther
      <3> QED
        BY <3>1, <3>2
    <2> QED
      BY <1>a, <1>2, <2>1, TracedCall DEF OwnInv, Private
  <1>3. CASE GuestStep \/ Die
    <2>1. UNCHANGED <<pc, seq>>
      BY <1>3 DEF GuestStep, Scan, ReadReq, RunCmd, WriteRes, PublishRes, RemoveReq, Die
    <2>2. \A d \in Calls : Unique(d)' => Unique(d)
      BY <2>1 DEF Unique
    <2> QED
      BY <1>a, <1>3, <2>1, <2>2, TracedGuest, PrivateGuest DEF OwnInv, Private
  <1> QED
    BY <1>1, <1>2, <1>3 DEF Next

LEMMA OwnInvariant == Spec => []OwnInv
  BY OwnInit, OwnStep, PTL DEF Spec

\* What a call returns that is alone with its tick was printed by its own command,
\* and that command ran once, however the other calls, the guest and the failures
\* step.  That it is all of it is not said, see ExecClaims.
THEOREM ExecOwnAnswer == Spec => []OwnAnswer
  <1>1. OwnInv => OwnAnswer
    <2> SUFFICES ASSUME OwnInv, NEW c \in Calls, pc[c] = "ok", Unique(c)
                 PROVE  got[c] = c /\ ran[c] = 1
      BY DEF OwnAnswer
    <2>1. got[c] = c /\ ran[c] > 0
      BY DEF OwnInv, Private, Answered
    <2> QED
      BY <2>1 DEF OwnInv, ExecInv, Ran
  <1> QED
    BY <1>1, OwnInvariant, PTL

\* Without a second call of its tick, a request is never run half-written.
THEOREM ExecNoTornCommand == Spec => []NoTornCommand
  <1>1. OwnInv => NoTornCommand
    <2> SUFFICES ASSUME OwnInv, gcmd = Torn
                 PROVE  \E c \in Calls : seq[c] = gseq /\ ~Unique(c)
      BY DEF NoTornCommand
    <2>1. gseq \in Ticks /\ Torn # None /\ Torn \notin Calls
      BY ExecAssumption DEF OwnInv, Traced
    <2> PICK d \in Calls : seq[d] = gseq
      BY <2>1 DEF OwnInv, Traced
    <2>2. pc[d] # "new"
      BY <2>1, ExecAssumption DEF OwnInv, Traced
    <2> QED
      BY <2>1, <2>2 DEF OwnInv, Private, Serving
  <1> QED
    BY <1>1, OwnInvariant, PTL

\* Wherever the guest dies, the directory of a caller that waits for a command
\* that ran holds its request or its answer.
THEOREM ExecNoAnswerLost == Spec => []NoAnswerLost
  <1>1. OwnInv => NoAnswerLost
    BY DEF OwnInv, Private, Answered, NoAnswerLost, Past, Returned
  <1> QED
    BY <1>1, OwnInvariant, PTL

-----------------------------------------------------------------------------
(* Each step is one of the service, or none. *)

ServiceStep == Service!Next \/ UNCHANGED Service!vars

LEMMA StatusIs ==
    ASSUME TypeOK, NEW c \in Calls
    PROVE  /\ Status(c) = "new" <=> pc[c] = "new"
           /\ Status(c) = "answered" <=> pc[c] = "ok"
           /\ Status(c) = "failed" <=> pc[c] \in {"timeout", "error", "killed"}
           /\ Status(c) = "waiting" <=> pc[c] \notin {"new"} \cup Returned
           /\ Status(c) \in {"new", "waiting", "answered", "failed"}
  BY DEF Status, TypeOK, Returned

\* A call that begins is mixed with those that read its clock value before.
LEMMA BeginMixes ==
    ASSUME OwnInv, NEW c \in Calls, Begin(c),
           NEW D, D = {d \in Calls \ {c} : pc[d] # "new" /\ seq[d] = seq'[c]}
    PROVE  Mixed' = IF D = {} THEN Mixed ELSE Mixed \cup D \cup {c}
  <1>a. TypeOK /\ \A x \in Calls : /\ pc[x] = "new" => seq[x] = None
                                   /\ pc[x] # "new" => seq[x] \in Ticks
    BY DEF OwnInv, ExecInv, TypeInv, Placed, Traced
  <1>1. /\ pc[c] = "new" /\ pc'[c] # "new" /\ seq'[c] \in Ticks /\ seq[c] = None
        /\ \A x \in Calls \ {c} : pc'[x] = pc[x] /\ seq'[x] = seq[x]
    BY <1>a DEF Begin, To, TypeOK
  <1>2. ~Unique(c)' <=> D # {}
    BY <1>a, <1>1, ExecAssumption DEF Unique
  <1>3. ASSUME NEW x \in Calls \ {c}, pc[x] # "new"
        PROVE  ~Unique(x)' <=> ~Unique(x) \/ x \in D
    <2>1. Unique(x)' <=> seq'[c] # seq[x] /\ \A y \in Calls \ {x, c} : seq[y] # seq[x]
      BY <1>1, <1>3 DEF Unique
    <2>2. Unique(x) <=> \A y \in Calls \ {x, c} : seq[y] # seq[x]
      BY <1>a, <1>1, <1>3, ExecAssumption DEF Unique
    <2> QED
      BY <1>3, <2>1, <2>2
  <1>4. \A x \in Calls : x \in Mixed' <=> x \in Mixed \/ x \in D \/ (x = c /\ D # {})
    BY <1>1, <1>2, <1>3 DEF Mixed
  <1> QED
    BY <1>4 DEF Mixed

\* Nothing else mixes calls.
LEMMA OthersMixNone ==
    ASSUME TypeOK, NEW c \in Calls, CallStep(c) \/ Interrupt(c)
    PROVE  Mixed' = Mixed
  <1>1. seq' = seq /\ \A x \in Calls : pc'[x] = "new" <=> pc[x] = "new"
    BY DEF CallStep, OpenTmp, FillTmp, MoveReq, FailWrite, SeeAnswer, Timeout, ReadAnswer,
           FailRead, TakeAnswer, FailTake, Interrupt, Parsed, To, TypeOK, Returned
  <1> QED
    BY <1>1 DEF Mixed, Unique

\* A step of a call that the service sees is its call, its answer or its failure.
LEMMA CallServed ==
    ASSUME OwnInv, OwnInv', NEW c \in Calls, Begin(c) \/ CallStep(c) \/ Interrupt(c)
    PROVE  ServiceStep
  <1>a. TypeOK /\ TypeOK' /\ ran \in [Calls -> Nat]
    BY DEF OwnInv, ExecInv, TypeInv, TypeOK
  <1> DEFINE was == [d \in Calls |-> Status(d)]
  <1>1. ran' = ran /\ \A d \in Calls : d # c => pc'[d] = pc[d]
    BY <1>a DEF CallStep, Begin, OpenTmp, FillTmp, MoveReq, FailWrite, SeeAnswer, Timeout,
                ReadAnswer, FailRead, TakeAnswer, FailTake, Interrupt, To, TypeOK
  <1>2. was' = [was EXCEPT ![c] = Status(c)']
    <2>1. \A d \in Calls : d # c => Status(d)' = Status(d)
      BY <1>1 DEF Status
    <2>2. was' = [d \in Calls |-> Status(d)']
      OBVIOUS
    <2> QED
      BY <2>1, <2>2
  <1>3. {d \in Calls : ran[d] > 0}' = {d \in Calls : ran[d] > 0}
    BY <1>1
  <1>4. CASE Begin(c)
    <2> DEFINE D == {d \in Calls \ {c} : pc[d] # "new" /\ seq[d] = seq'[c]}
    <2>1. was[c] = "new" /\ Status(c)' = "waiting"
      BY <1>a, <1>4 DEF Begin, To, Status, TypeOK, Returned
    <2>2. D \in SUBSET {d \in Calls \ {c} : was[d] # "new"}
      BY <1>a, StatusIs
    <2>3. Mixed' = IF D = {} THEN Mixed ELSE Mixed \cup D \cup {c}
      BY <1>4, BeginMixes
    <2> HIDE DEF D
    <2> QED
      BY <1>2, <1>3, <2>1, <2>2, <2>3 DEF ServiceStep, Service!Next, Service!Call
  <1>5. CASE CallStep(c) \/ Interrupt(c)
    <2>a. pc[c] \notin {"new"} \cup Returned /\ pc'[c] # "new"
      BY <1>a, <1>5 DEF CallStep, OpenTmp, FillTmp, MoveReq, FailWrite, SeeAnswer, Timeout,
                  ReadAnswer, FailRead, TakeAnswer, FailTake, Interrupt, Parsed, To, TypeOK,
                  Returned
    <2>1. was[c] = "waiting" /\ Mixed' = Mixed
      BY <1>a, <1>5, <2>a, StatusIs, OthersMixNone
    <2>2. CASE pc'[c] = "ok"
      <3>1. Status(c)' = "answered"
        BY <2>2 DEF Status
      <3>2. ran[c] > 0 \/ c \in Mixed
        <4>1. CASE Unique(c)'
          <5>1. Answered(c)'
            BY <2>2, <4>1 DEF OwnInv, Private
          <5> QED
            BY <1>1, <2>2, <5>1 DEF Answered
        <4>2. CASE ~Unique(c)'
          BY <2>1, <2>2, <4>2 DEF Mixed
        <4> QED
          BY <4>1, <4>2
      <3> QED
        BY <1>2, <1>3, <2>1, <3>1, <3>2
           DEF ServiceStep, Service!Next, Service!Return, Service!Answer
    <2>3. CASE pc'[c] \in {"timeout", "error", "killed"}
      <3>1. Status(c)' = "failed"
        BY <2>3 DEF Status, Returned
      <3> QED
        BY <1>2, <1>3, <2>1, <3>1
           DEF ServiceStep, Service!Next, Service!Return, Service!GiveUp
    <2>4. CASE pc'[c] \notin {"ok", "timeout", "error", "killed"}
      <3>1. Status(c)' = "waiting"
        BY <2>a, <2>4 DEF Status, Returned
      <3>2. was' = was
        BY <1>2, <2>1, <3>1
      <3> QED
        BY <1>3, <2>1, <3>2 DEF ServiceStep, Service!vars
    <2> QED
      BY <2>2, <2>3, <2>4
  <1> QED
    BY <1>4, <1>5

\* A step of the guest that the service sees runs a command for the first time,
\* and not after its caller had an answer, unless that was another's.
LEMMA GuestServed ==
    ASSUME OwnInv, GuestStep \/ Die
    PROVE  ServiceStep
  <1>a. TypeOK /\ UNCHANGED <<pc, seq>> /\ ran \in [Calls -> Nat]
    BY DEF OwnInv, ExecInv, TypeInv, TypeOK, GuestStep, Scan, ReadReq, RunCmd, WriteRes,
           PublishRes, RemoveReq, Die
  <1> DEFINE was == [d \in Calls |-> Status(d)]
             done == {d \in Calls : ran[d] > 0}
  <1>1. was' = was /\ Mixed' = Mixed
    BY <1>a DEF Status, Mixed, Unique
  <1>2. CASE RunCmd /\ gcmd \in Calls
    <2>1. ran[gcmd] = 0 /\ pc[gcmd] # "new"
      BY <1>2, ExecAssumption DEF RunCmd, OwnInv, ExecInv, Ran, Consumed
    <2>2. done' = done \cup {gcmd} /\ gcmd \notin done
      BY <1>2, <1>a, <2>1 DEF RunCmd
    <2>3. pc[gcmd] = "ok" => gcmd \in Mixed
      <3>1. pc[gcmd] = "ok" => ~Unique(gcmd)
        BY <1>2, <2>1 DEF OwnInv, Private, Answered
      <3> QED
        BY <1>2, <2>1, <3>1 DEF Mixed
    <2>4. was[gcmd] # "new" /\ (was[gcmd] = "answered" => gcmd \in Mixed)
      BY <1>2, <1>a, <2>1, <2>3, StatusIs
    <2> QED
      BY <1>1, <1>2, <2>2, <2>4 DEF ServiceStep, Service!Next, Service!Run
  <1>3. CASE ~(RunCmd /\ gcmd \in Calls)
    <2>1. ran' = ran
      BY <1>3, <1>a DEF GuestStep, Scan, ReadReq, RunCmd, WriteRes, PublishRes,
                        RemoveReq, Die
    <2> QED
      BY <1>1, <2>1 DEF ServiceStep, Service!vars
  <1> QED
    BY <1>2, <1>3

\* All that the calls, the guest and the failures do is what the service allows,
\* see ImplementsExecService, whichever calls read the same clock value; that each
\* call returns is left to its run.
THEOREM ExecImplements == Spec => Service!Init /\ [][Service!Next]_(Service!vars)
  <1>1. Init => Service!Init
    <2> SUFFICES ASSUME Init PROVE Service!Init
      OBVIOUS
    <2>1. [c \in Calls |-> Status(c)] = [c \in Calls |-> "new"]
      BY DEF Init, Status, Returned
    <2>2. {c \in Calls : ran[c] > 0} = {} /\ Mixed = {}
      BY DEF Init, Mixed
    <2> QED
      BY <2>1, <2>2 DEF Service!Init
  <1>2. OwnInv /\ OwnInv' /\ [Next]_vars => [Service!Next]_(Service!vars)
    <2> SUFFICES ASSUME OwnInv, OwnInv', [Next]_vars PROVE ServiceStep
      BY DEF ServiceStep
    <2>1. CASE UNCHANGED vars
      BY <2>1 DEF vars, ServiceStep, Service!vars, Status, Mixed, Unique
    <2> QED
      BY <2>1, CallServed, GuestServed DEF Next
  <1> QED
    BY <1>1, <1>2, OwnInvariant, PTL DEF Spec
=============================================================================
