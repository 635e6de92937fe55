------------------------------ MODULE ImapSession ------------------------------
(***************************************************************************)
(* The IMAP channel's session (imap/connection.py) in the loop its class   *)
(* describes: connect, fetch what is unseen, process each mail, mark it.   *)
(* FETCH of RFC822 itself sets \Seen.  The adapter notes a mail as         *)
(* processed in SQLite (imap/uid_tracker.py) before its message goes to    *)
(* the gateway, and nobody asks the tracker.  Whatever raises ends the     *)
(* loop, which reconnects; the process may also be killed.                 *)
(***************************************************************************)
EXTENDS Naturals, Sequences, FiniteSets

CONSTANTS
  Mails,
  MaxAsked,        \* bound: how often a mail comes to be unseen
  MaxEnds          \* bound: ends of the loop

ASSUME ImapAssumption == MaxAsked \in Nat /\ MaxEnds \in Nat

VARIABLES
  unseen,          \* the server: mails without \Seen
  session,         \* step; unfetched: what SEARCH found; fetched: the list under way
  tracked,         \* seen_uids
  imap_ends,       \* counts ends of the loop
  asked,           \* history: asked[m]: how often m came to be unseen
  handed,          \* history: handed[m]: how often m went to the gateway
  let_go           \* history: let_go[m]: dropped by the adapter, or under way when the loop ended

imap_vars == <<unseen, session, tracked, imap_ends, asked, handed, let_go>>

Session(step, unfetched, fetched) ==
  [step |-> step, unfetched |-> unfetched, fetched |-> fetched]
Closed == Session("closed", {}, << >>)

ImapInit ==
  /\ unseen = {} /\ session = Closed /\ tracked = {} /\ imap_ends = 0
  /\ asked = [m \in Mails |-> 0] /\ handed = asked /\ let_go = asked

(* A mail comes, or its owner marks it as unread.                          *)
TurnsUnseen(m) ==
  /\ m \notin unseen /\ asked[m] < MaxAsked
  /\ unseen' = unseen \union {m} /\ asked' = [asked EXCEPT ![m] = @ + 1]
  /\ UNCHANGED <<session, tracked, imap_ends, handed, let_go>>

(* connect(), in the end: reconnect() tries after longer and longer delays *)
(* and gives up after seven; then its caller has to call it again.         *)
Connects ==
  /\ session.step = "closed"
  /\ session' = Session("open", {}, << >>)
  /\ UNCHANGED <<unseen, tracked, imap_ends, asked, handed, let_go>>

(* fetch_unseen(): SEARCH, then one FETCH for each.                        *)
Searches ==
  /\ session.step = "open"
  /\ session' = Session("fetch", unseen, << >>)
  /\ UNCHANGED <<unseen, tracked, imap_ends, asked, handed, let_go>>

(* Mutant: BODY.PEEK[], which leaves the flag.                             *)
UnseenAfterPeek(m) == unseen

UnseenAfterFetch(m) == unseen \ {m}

Fetches(m) ==
  /\ session.step = "fetch" /\ m \in session.unfetched
  /\ unseen' = UnseenAfterFetch(m)
  /\ session' = Session("fetch", session.unfetched \ {m}, Append(session.fetched, m))
  /\ UNCHANGED <<tracked, imap_ends, asked, handed, let_go>>

ProcessOrWait(list) == Session(IF list = << >> THEN "open" ELSE "process", {}, list)

FetchedAll ==
  /\ session.step = "fetch" /\ session.unfetched = {}
  /\ session' = ProcessOrWait(session.fetched)
  /\ UNCHANGED <<unseen, tracked, imap_ends, asked, handed, let_go>>

(* on_message(): None for what cannot be parsed or may not speak in        *)
(* public; else it is tracked and its message returned.                    *)
Processes ==
  LET m == Head(session.fetched) IN
  /\ session.step = "process"
  /\ \/ /\ session' = [session EXCEPT !.step = "mark"]
        /\ let_go' = [let_go EXCEPT ![m] = @ + 1] /\ UNCHANGED tracked
     \/ /\ session' = [session EXCEPT !.step = "hand over"]
        /\ tracked' = tracked \union {m} /\ UNCHANGED let_go
  /\ UNCHANGED <<unseen, imap_ends, asked, handed>>

HandsOver ==
  LET m == Head(session.fetched) IN
  /\ session.step = "hand over"
  /\ session' = [session EXCEPT !.step = "mark"]
  /\ handed' = [handed EXCEPT ![m] = @ + 1]
  /\ UNCHANGED <<unseen, tracked, imap_ends, asked, let_go>>

(* mark_seen() of the connection: also a mail that was unread again.       *)
MarksSeen ==
  /\ session.step = "mark"
  /\ unseen' = unseen \ {Head(session.fetched)}
  /\ let_go' = [let_go EXCEPT ![Head(session.fetched)] =
                  @ + Cardinality(unseen \intersect {Head(session.fetched)})]
  /\ session' = ProcessOrWait(Tail(session.fetched))
  /\ UNCHANGED <<tracked, imap_ends, asked, handed>>

(* The list under way, without what is done with: at "mark" its head.      *)
UnderWay ==
  LET done == IF session.step = "mark" THEN 1 ELSE 0
  IN  {session.fetched[i] : i \in (done + 1)..Len(session.fetched)}

(* A command, the adapter or the gateway raises, or the process is killed. *)
LoopEnds ==
  /\ session.step # "closed"
  /\ imap_ends < MaxEnds /\ imap_ends' = imap_ends + 1
  /\ let_go' = [m \in Mails |-> let_go[m] + Cardinality({m} \intersect UnderWay)]
  /\ session' = Closed
  /\ UNCHANGED <<unseen, tracked, asked, handed>>

ImapNext ==
  \/ \E m \in Mails : TurnsUnseen(m) \/ Fetches(m)
  \/ Connects \/ Searches \/ FetchedAll \/ Processes \/ HandsOver \/ MarksSeen \/ LoopEnds

ImapSpec == ImapInit /\ [][ImapNext]_imap_vars
-------------------------------------------------------------------------------
(* The values of the variables.                                            *)
SessionSteps == {"closed", "open", "fetch", "process", "hand over", "mark"}

ImapTypes ==
  /\ unseen \in SUBSET Mails /\ tracked \in SUBSET Mails /\ imap_ends \in Nat
  /\ session \in [step : SessionSteps, unfetched : SUBSET Mails, fetched : Seq(Mails)]
  /\ asked \in [Mails -> Nat] /\ handed \in [Mails -> Nat] /\ let_go \in [Mails -> Nat]

(* A mail goes to the gateway at most once for each time it came to be     *)
(* unseen, whatever ends the loop and when; each such time it is still     *)
(* unseen, under way, handed over, or let go; and what was handed over is  *)
(* tracked, though not all that is tracked was handed over.                *)
MailHandedOnce ==
  \A m \in Mails :
    /\ handed[m] <= asked[m]
    /\ asked[m] = handed[m] + let_go[m] + Cardinality({m} \intersect unseen)
                  + Cardinality({m} \intersect UnderWay)
    /\ handed[m] > 0 => m \in tracked

(* Over disconnections, restarts and mails marked as unread again: a mail  *)
(* is handed to the gateway, or let go, only while it waits to be.         *)
ImapOnce == INSTANCE AtMostOnce WITH Items <- Mails
ImapImplementsAtMostOnce == ImapOnce!Spec

(* With the types: what the loop promises of each mail, in each state and in each step.*)
ImapPromiseKept == [](ImapTypes /\ MailHandedOnce) /\ ImapImplementsAtMostOnce
===============================================================================
