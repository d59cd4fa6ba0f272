---------------------------- MODULE ExecChannel ----------------------------
(***************************************************************************)
(* The exec channel of one node: the driver's Exec on the host             *)
(* (internal/driver/qemu/live.go) and the loop of the guest's init         *)
(* (scripts/guest/init.sh) exchange files in the control directory that    *)
(* both see over 9p.  A call is one Exec; calls of different klab processes*)
(* run side by side and agree on nothing but the names of their files,     *)
(* which are readings of the clock.                                        *)
(*                                                                         *)
(* The inodes of the request files are modelled, since two calls that read *)
(* the same clock value write through the same name; the call that created *)
(* a file names its inode.  A file's contents is the call whose command or *)
(* answer it holds, or Torn when it is not written out.                    *)
(***************************************************************************)
EXTENDS Naturals, FiniteSets

CONSTANTS
    Calls,       \* the Exec calls
    Ticks,       \* the clock values they may read (bound)
    Endless,     \* calls whose command may never end
    None, Torn

ASSUME ExecAssumption ==
    /\ Ticks \subseteq Nat
    /\ Endless \subseteq Calls
    /\ None \notin Calls \cup Ticks /\ Torn \notin Calls /\ None # Torn

VARIABLES
    pc,      \* call |-> the step it is about to take, or how it returned
    seq,     \* call |-> its clock reading, a tick or None
    fd,      \* call |-> the inode its shell writes the request to
    got,     \* call |-> the answer it read
    cut,     \* the calls that read the beginning of an answer only
    data,    \* inode |-> its contents
    reqTmp,  \* tick |-> inode of <seq>.req.tmp
    req,     \* tick |-> inode of <seq>.req
    resTmp,  \* tick |-> contents of <seq>.res.tmp
    res,     \* tick |-> contents of <seq>.res
    gpc,     \* the guest's next step
    gseq,    \* the request the guest is serving
    gcmd,    \* the command it read from it
    ran      \* history: call |-> how often its command was run

callVars == <<pc, seq, fd, got, cut>>
reqVars == <<data, reqTmp, req>>
resVars == <<resTmp, res>>
guestVars == <<gpc, gseq, gcmd>>
vars == <<callVars, reqVars, resVars, guestVars, ran>>

Returned == {"ok", "timeout", "error", "killed"}
Contents == Calls \cup {Torn}
TypeOK ==
    /\ pc \in [Calls -> {"new", "open", "fill", "move", "poll", "cat", "rm"} \cup Returned]
    /\ seq \in [Calls -> Ticks \cup {None}]
    /\ fd \in [Calls -> Calls \cup {None}]
    /\ got \in [Calls -> Contents \cup {None}]
    /\ cut \subseteq Calls
    /\ data \in [Calls -> Contents]
    /\ reqTmp \in [Ticks -> Calls \cup {None}]
    /\ req \in [Ticks -> Calls \cup {None}]
    /\ resTmp \in [Ticks -> Contents \cup {None}]
    /\ res \in [Ticks -> Contents \cup {None}]
    /\ gpc \in {"scan", "read", "run", "write", "publish", "remove", "dead"}
    /\ gseq \in Ticks \cup {None}
    /\ gcmd \in Contents \cup {None}
    /\ gpc = "read" => gseq \in Ticks /\ req[gseq] \in Calls
    /\ ran \in [Calls -> Nat]

Init ==
    /\ pc = [c \in Calls |-> "new"]
    /\ seq = [c \in Calls |-> None]
    /\ fd = [c \in Calls |-> None]
    /\ got = [c \in Calls |-> None]
    /\ cut = {}
    /\ data = [i \in Calls |-> Torn]
    /\ reqTmp = [s \in Ticks |-> None]
    /\ req = [s \in Ticks |-> None]
    /\ resTmp = [s \in Ticks |-> None]
    /\ res = [s \in Ticks |-> None]
    /\ gpc = "scan" /\ gseq = None /\ gcmd = None
    /\ ran = [c \in Calls |-> 0]

-----------------------------------------------------------------------------
(* Exec, on the host. *)

To(c, label) == pc' = [pc EXCEPT ![c] = label]

\* nowNano: any value, also one that another call has read, since the clocks of
\* two hosts' processes may step.
Begin(c) ==
    /\ pc[c] = "new"
    /\ \E s \in Ticks : seq' = [seq EXCEPT ![c] = s]
    /\ To(c, "open")
    /\ UNCHANGED <<fd, got, cut, reqVars, resVars, guestVars, ran>>

\* "base64 -d > <seq>.req.tmp": the shell creates the file or truncates the one
\* that is there, ...
OpenTmp_InPlace(c) ==
    /\ pc[c] = "open"
    /\ req' = [req EXCEPT ![seq[c]] = c]
    /\ fd' = [fd EXCEPT ![c] = c]
    /\ To(c, "fill")
    /\ UNCHANGED <<seq, got, cut, data, reqTmp, resVars, guestVars, ran>>
OpenTmp(c) ==
    /\ pc[c] = "open"
    /\ LET i == IF reqTmp[seq[c]] = None THEN c ELSE reqTmp[seq[c]]
       IN  /\ reqTmp' = [reqTmp EXCEPT ![seq[c]] = i]
           /\ fd' = [fd EXCEPT ![c] = i]
           /\ data' = [data EXCEPT ![i] = Torn]
    /\ To(c, "fill")
    /\ UNCHANGED <<seq, got, cut, req, resVars, guestVars, ran>>

\* ... fills it through the descriptor it has, wherever the name went, ...
FillTmp(c) ==
    /\ pc[c] = "fill"
    /\ data' = [data EXCEPT ![fd[c]] = c]
    /\ To(c, "move")
    /\ UNCHANGED <<seq, fd, got, cut, reqTmp, req, resVars, guestVars, ran>>

\* ... and "mv" gives it the name the guest looks for.  A mv that finds no file
\* fails, which Exec does not notice.
MoveReq(c) ==
    /\ pc[c] = "move"
    /\ IF reqTmp[seq[c]] = None
       THEN UNCHANGED <<reqTmp, req>>
       ELSE /\ req' = [req EXCEPT ![seq[c]] = reqTmp[seq[c]]]
            /\ reqTmp' = [reqTmp EXCEPT ![seq[c]] = None]
    /\ To(c, "poll")
    /\ UNCHANGED <<seq, fd, got, cut, data, resVars, guestVars, ran>>

\* The write fails: an error of the Runner is returned, any other failure is
\* not noticed and Exec waits for an answer that will not come.
FailWrite(c) ==
    /\ pc[c] \in {"open", "fill", "move"}
    /\ \/ pc[c] = "open" /\ To(c, "error")
       \/ To(c, "poll")
    /\ UNCHANGED <<seq, fd, got, cut, reqVars, resVars, guestVars, ran>>

\* A poll sees the answer's file, or the deadline passes; the deadline is not
\* preceded by a last look.
SeeAnswer(c) ==
    /\ pc[c] = "poll"
    /\ res[seq[c]] # None
    /\ To(c, "cat")
    /\ UNCHANGED <<seq, fd, got, cut, reqVars, resVars, guestVars, ran>>
Timeout_Never(c) == FALSE
Timeout(c) ==
    /\ pc[c] = "poll"
    /\ To(c, "timeout")
    /\ UNCHANGED <<seq, fd, got, cut, reqVars, resVars, guestVars, ran>>

\* "cat <seq>.res"; a cat that prints nothing is not told from an answer yet.
ReadAnswer(c) ==
    /\ pc[c] = "cat"
    /\ got' = [got EXCEPT ![c] = res[seq[c]]]
    /\ To(c, "rm")
    /\ UNCHANGED <<seq, fd, cut, reqVars, resVars, guestVars, ran>>

\* Only an error of the Runner ends the call.  The exit code of cat, or of the
\* shell it runs in, is not looked at: Exec goes on with what was printed until
\* then, nothing or the beginning of the answer.
FailRead(c) ==
    /\ pc[c] = "cat"
    /\ \/ To(c, "error") /\ UNCHANGED <<got, cut>>
       \/ To(c, "rm") /\ UNCHANGED <<got, cut>>
       \/ /\ To(c, "rm")
          /\ res[seq[c]] # None
          /\ got' = [got EXCEPT ![c] = res[seq[c]]]
          /\ cut' = cut \cup {c}
    /\ UNCHANGED <<seq, fd, reqVars, resVars, guestVars, ran>>

\* "rm -f <seq>.res", whose failure is dropped, and parseResponse, which
\* rejects a text without a whole line "rc=<n>" and takes all that follows one
\* for the output.  An answer that is cut within that line counts as none here.
Parsed_Anything(c) == "ok"
Parsed(c) == IF got[c] = None THEN "error" ELSE "ok"
TakeAnswer(c) ==
    /\ pc[c] = "rm"
    /\ res' = [res EXCEPT ![seq[c]] = None]
    /\ To(c, Parsed(c))
    /\ UNCHANGED <<seq, fd, got, cut, reqVars, resTmp, guestVars, ran>>
FailTake(c) ==
    /\ pc[c] = "rm"
    /\ To(c, Parsed(c))
    /\ UNCHANGED <<seq, fd, got, cut, reqVars, resVars, guestVars, ran>>

\* The klab process is killed (its shell in the VM, mid-write, with it).
Interrupt(c) ==
    /\ pc[c] \notin {"new"} \cup Returned
    /\ To(c, "killed")
    /\ UNCHANGED <<seq, fd, got, cut, reqVars, resVars, guestVars, ran>>

-----------------------------------------------------------------------------
(* The loop of the guest's init. *)

\* The first name the glob lists is the smallest: readings of the clock have
\* the same number of digits.
Waiting == {s \in Ticks : req[s] # None}
Scan_Unchecked ==
    /\ gpc = "scan"
    /\ \E s \in Ticks : gseq' = s
    /\ gpc' = "read"
    /\ UNCHANGED <<callVars, reqVars, resVars, gcmd, ran>>
Scan ==
    /\ gpc = "scan"
    /\ \E s \in Waiting : (\A r \in Waiting : s <= r) /\ gseq' = s
    /\ gpc' = "read"
    /\ UNCHANGED <<callVars, reqVars, resVars, gcmd, ran>>

ReadReq_Consumes ==
    /\ gpc = "read"
    /\ gcmd' = data[req[gseq]]
    /\ req' = [req EXCEPT ![gseq] = None]
    /\ gpc' = "run"
    /\ UNCHANGED <<callVars, data, reqTmp, resVars, gseq, ran>>
ReadReq ==
    /\ gpc = "read"
    /\ gcmd' = data[req[gseq]]
    /\ gpc' = "run"
    /\ UNCHANGED <<callVars, reqVars, resVars, gseq, ran>>

\* "sh -c" runs the command; it is counted when it starts, and the loop waits
\* until it ends, which it may not.
RunCmd ==
    /\ gpc = "run"
    /\ ran' = [c \in Calls |-> IF c = gcmd THEN ran[c] + 1 ELSE ran[c]]
    /\ gpc' = "write"
    /\ UNCHANGED <<callVars, reqVars, resVars, gseq, gcmd>>

WriteRes ==
    /\ gpc = "write"
    /\ resTmp' = [resTmp EXCEPT ![gseq] = gcmd]
    /\ gpc' = "publish"
    /\ UNCHANGED <<callVars, reqVars, res, gseq, gcmd, ran>>

PublishRes ==
    /\ gpc = "publish"
    /\ res' = [res EXCEPT ![gseq] = resTmp[gseq]]
    /\ resTmp' = [resTmp EXCEPT ![gseq] = None]
    /\ gpc' = "remove"
    /\ UNCHANGED <<callVars, reqVars, gseq, gcmd, ran>>

RemoveReq_Forgets ==
    /\ gpc = "remove"
    /\ gpc' = "scan" /\ gseq' = None /\ gcmd' = None
    /\ UNCHANGED <<callVars, reqVars, resVars, ran>>
RemoveReq ==
    /\ gpc = "remove"
    /\ req' = [req EXCEPT ![gseq] = None]
    /\ gpc' = "scan" /\ gseq' = None /\ gcmd' = None
    /\ UNCHANGED <<callVars, data, reqTmp, resVars, ran>>

\* The guest stops between two steps: power-off, panic (init runs with "set -e"
\* as process 1), or its qemu killed.  A later boot gets a new directory.
Die ==
    /\ gpc # "dead"
    /\ gpc' = "dead"
    /\ UNCHANGED <<callVars, reqVars, resVars, gseq, gcmd, ran>>

-----------------------------------------------------------------------------
CallStep(c) ==
    \/ OpenTmp(c) \/ FillTmp(c) \/ MoveReq(c) \/ FailWrite(c)
    \/ SeeAnswer(c) \/ Timeout(c)
    \/ ReadAnswer(c) \/ FailRead(c) \/ TakeAnswer(c) \/ FailTake(c)
GuestStep == Scan \/ ReadReq \/ RunCmd \/ WriteRes \/ PublishRes \/ RemoveReq

Next ==
    \/ \E c \in Calls : Begin(c) \/ CallStep(c) \/ Interrupt(c)
    \/ GuestStep
    \/ Die

\* A call that began goes on to its deadline, and a guest that is alive serves,
\* as long as it is not held by a command that does not end.
Held == gpc = "write" /\ gcmd \in Endless
Fairness ==
    /\ WF_vars(GuestStep /\ ~Held)
    /\ \A c \in Calls : WF_vars(CallStep(c))
Spec == Init /\ [][Next]_vars
FairSpec == Spec /\ Fairness

-----------------------------------------------------------------------------
(* Properties. *)

\* A call's command runs at most once (init.sh removes a request only after it
\* ran it, and no file is moved to a request's name twice), also when two calls
\* share the names of their files.
AtMostOnce == \A c \in Calls : ran[c] <= 1

\* Two calls that read the same clock value may take each other's answer and
\* truncate each other's request; little is said of those.
Unique(c) == \A d \in Calls \ {c} : seq[d] # seq[c]

\* What Exec returns was printed by its own command, which ran exactly once,
\* whatever calls with other clock values do and whatever fails (live.go:83-114).
\* It need not be all that was printed, see ExecClaims.
OwnAnswer == \A c \in Calls : pc[c] = "ok" /\ Unique(c) => got[c] = c /\ ran[c] = 1

\* The guest never runs a command that is not written out (live.go:92, the
\* rename of the request).
NoTornCommand == gcmd = Torn => \E c \in Calls : seq[c] = gseq /\ ~Unique(c)

\* A caller that still waits for a command that ran finds the request or its
\* answer there: no death of the guest, between any two steps of its loop,
\* loses both (init.sh:48-50, the order of its last three steps).
NoAnswerLost ==
    \A c \in Calls :
        pc[c] \in {"poll", "cat"} /\ Unique(c) /\ ran[c] > 0 =>
            req[seq[c]] = c \/ res[seq[c]] = c

\* A request that reached the guest's directory is served, unless the guest dies
\* or the command being run never ends: one such command starves every other
\* call.
Served ==
    \A s \in Ticks :
        req[s] # None ~> \/ req[s] = None
                         \/ gpc = "dead"
                         \/ Held

\* Exec implements the service its callers rely on, in which calls that read the
\* same clock value may be taken for each other.
Status(c) ==
    CASE pc[c] = "new" -> "new"
      [] pc[c] = "ok" -> "answered"
      [] pc[c] \in Returned \ {"ok"} -> "failed"
      [] OTHER -> "waiting"
Mixed == {c \in Calls : pc[c] # "new" /\ ~Unique(c)}
Service == INSTANCE ExecService
           WITH status <- [c \in Calls |-> Status(c)],
                done <- {c \in Calls : ran[c] > 0},
                mixed <- Mixed
ImplementsExecService == Service!Spec
=============================================================================
