--------------------------- MODULE EthtoolQuerier ---------------------------
(***************************************************************************)
(* Link speed and duplex over a generic-netlink socket that is kept from   *)
(* cycle to cycle (src/ethtool_link.cpp).  The kernel answers a request    *)
(* before sendto returns, so an exchange is one step; any call on the      *)
(* socket may fail, and then answers stay in its receive queue.            *)
(***************************************************************************)
EXTENDS Integers, Sequences, FiniteSets, SequencesExt

CONSTANTS
  Ifaces,      \* the interfaces asked for, in order
  FamilyName,  \* ETHTOOL_GENL_NAME
  Supported,   \* what the kernel has an answer for, FamilyName if it has ethtool netlink
  MaxSeq,      \* bound on sequence numbers (for TLC)
  MaxSockFaults  \* bound on failing calls (for TLC)

\* query returns at once when it is asked for nothing.
ASSUME EthtoolAssumption == Ifaces \in Seq(Range(Ifaces)) \ {<<>>}

VARIABLES
  sock,      \* sock_ is set
  family,    \* family_ is resolved
  answers,   \* external: the socket's receive queue
  seq,       \* next_seq's static
  epc,       \* "idle", or in query's loop "batch"
  todo,      \* interfaces the loop has still to ask for
  out,       \* query's result: whose answer each interface was given
  sockFaults,\* bound
  \* history
  failed,    \* a call failed in this query
  tainted    \* resolving the family left answers in the queue of this socket

ethtoolVars ==
  <<sock, family, answers, seq, epc, todo, out, sockFaults, failed, tainted>>

EthtoolInit ==
  /\ sock = FALSE /\ family = FALSE /\ answers = <<>> /\ seq = 0
  /\ epc = "idle" /\ todo = <<>> /\ out = <<>>
  /\ sockFaults = 0
  /\ failed = FALSE /\ tainted = FALSE
-----------------------------------------------------------------------------
\* The kernel's answer to a request with NLM_F_ACK
AnswerTo(s, x) ==
  IF x \in Supported
  THEN <<[seq |-> s, type |-> "reply", of |-> x], [seq |-> s, type |-> "ack", of |-> x]>>
  ELSE <<[seq |-> s, type |-> "error", of |-> x]>>

\* Mutant: a message is taken for the answer whatever its sequence number.
run_request_any_seq(x, s, fails) ==
  LET q == answers \o AnswerTo(s, x)
      m == Head(q)
  IN  IF fails = "send" THEN [status |-> "SocketError", queue |-> answers, got |-> {}]
      ELSE IF fails = "recv" THEN [status |-> "SocketError", queue |-> q, got |-> {}]
      ELSE IF m.type = "error" THEN [status |-> "MsgError", queue |-> Tail(q), got |-> {}]
      ELSE IF fails = "ack" THEN [status |-> "SocketError", queue |-> Tail(q), got |-> {m.of}]
      ELSE [status |-> "Ok", queue |-> Tail(Tail(q)), got |-> {m.of}]

\* run_request for x: what it returns, what it leaves in the queue, and what
\* the callback has seen.  mnl_cb_run refuses a message with another sequence
\* number; after the reply comes the acknowledgement.
run_request(x, s, fails) ==
  LET q == answers \o AnswerTo(s, x)
      m == Head(q)
  IN  IF fails = "send" THEN [status |-> "SocketError", queue |-> answers, got |-> {}]
      ELSE IF fails = "recv" THEN [status |-> "SocketError", queue |-> q, got |-> {}]
      ELSE IF m.seq # s \/ m.type = "error"
      THEN [status |-> "MsgError", queue |-> Tail(q), got |-> {}]
      ELSE IF fails = "ack" THEN [status |-> "SocketError", queue |-> Tail(q), got |-> {m.of}]
      ELSE [status |-> "Ok", queue |-> Tail(Tail(q)), got |-> {m.of}]

\* A call may fail; which one
Failing(f) ==
  \/ f = "none" /\ UNCHANGED sockFaults
  \/ f # "none" /\ sockFaults < MaxSockFaults /\ sockFaults' = sockFaults + 1

\* ensure_ready with a socket and no family, and the start of the loop
resolve_family ==
  \E f \in {"none", "send", "recv", "ack"} :
    LET r == run_request(FamilyName, seq + 1, f)
    IN  /\ Failing(f)
        /\ seq' = seq + 1
        /\ answers' = r.queue
        /\ family' = (r.got # {})
        /\ epc' = IF family' THEN "batch" ELSE "idle"
        /\ todo' = IF family' THEN Ifaces ELSE <<>>
        /\ failed' = (f # "none")
        /\ tainted' = (tainted \/ r.queue # <<>>)

\* query up to its loop; ensure_ready opens the socket and resolves the
\* family when it has to
query ==
  /\ epc = "idle" /\ seq + Len(Ifaces) + 1 <= MaxSeq
  /\ out' = <<>>
  /\ \/ /\ ~sock /\ Failing("open")
        /\ failed' = TRUE
        /\ UNCHANGED <<sock, family, answers, seq, epc, todo, tainted>>
     \/ ~family /\ sock' = TRUE /\ resolve_family
     \/ /\ family
        /\ epc' = "batch" /\ todo' = Ifaces
        /\ failed' = FALSE
        /\ UNCHANGED <<sock, family, answers, seq, tainted, sockFaults>>

reset ==
  /\ sock' = FALSE /\ family' = FALSE /\ answers' = <<>>
  /\ tainted' = FALSE
  /\ epc' = "idle" /\ todo' = <<>>

\* out[ifname] = *info
Answered(ifname, got) ==
  [x \in DOMAIN out \cup {ifname} |-> IF x = ifname THEN CHOOSE y \in got : TRUE ELSE out[x]]

\* Mutant: a failing socket is kept.
query_one_keeps_socket ==
  /\ epc = "batch"
  /\ \E f \in {"none", "send", "recv", "ack"} :
       LET r == run_request(Head(todo), seq + 1, f)
       IN  /\ Failing(f)
           /\ seq' = seq + 1
           /\ failed' = (failed \/ f # "none")
           /\ answers' = r.queue
           /\ todo' = Tail(todo) /\ epc' = IF Tail(todo) = <<>> THEN "idle" ELSE epc
           /\ out' = IF r.status = "Ok"
                     THEN Answered(Head(todo), r.got)
                     ELSE out
           /\ UNCHANGED <<sock, family, tainted>>

\* query_one and the rest of a round of query's loop
query_one ==
  /\ epc = "batch"
  /\ \E f \in {"none", "send", "recv", "ack"} :
       LET r == run_request(Head(todo), seq + 1, f)
       IN  /\ Failing(f)
           /\ seq' = seq + 1
           /\ failed' = (failed \/ f # "none")
           /\ \/ r.status = "SocketError" /\ reset /\ UNCHANGED out
              \/ /\ r.status # "SocketError"
                 /\ answers' = r.queue
                 /\ todo' = Tail(todo) /\ epc' = IF Tail(todo) = <<>> THEN "idle" ELSE epc
                 /\ out' = IF r.status = "Ok"
                           THEN Answered(Head(todo), r.got)
                           ELSE out
                 /\ UNCHANGED <<sock, family, tainted>>

EthtoolNext == query \/ query_one
EthtoolSpec == EthtoolInit /\ [][EthtoolNext]_ethtoolVars
-----------------------------------------------------------------------------
\* An interface is never given the speed and duplex of another, although the
\* answers of an exchange that failed may still be in the queue of the socket
\* that the next one uses (ethtool_link.cpp:24).
OwnAnswers == \A x \in DOMAIN out : out[x] = x

\* A query in which no call fails answers for every interface it was asked for
\* and the kernel has an answer for, whatever failed in the queries before: the
\* socket that failed is replaced (ethtool_link.cpp:199).  The one exception is
\* a failure while the family was resolved: its status is ignored, and the
\* answers left in the queue make every later exchange on this socket one too
\* late.
AnswersAll ==
  FamilyName \in Supported /\ epc = "idle" /\ sock /\ ~failed /\ ~tainted =>
    Range(Ifaces) \cap Supported \subseteq DOMAIN out
=============================================================================
