--------------------------- MODULE CasePageProofs ----------------------------
(* CasePage, for every value of its constants: the page shows one case at a
   time and goes forward only.

   That what arrives fits what is shown follows from what is on its way, so the
   inductive invariant speaks of the frames: which requests may be under way in
   each state of a connection, that the handshake is over before the first
   record is sent, that records of one connection arrive in the order the case
   went through their statuses, none after a final one, and that no connection
   but the page's own delivers. *)
EXTENDS CasePage, TLAPS, SequenceTheorems

Frames == {"open", "connected", "close", "done", "case_not_found"} \cup Shown
Handshake == {"open", "connected"}
Asking == {<<"connect">>, <<"connect", "disconnect">>}
Subscribing == {<<"subscribe">>, <<"subscribe", "disconnect">>}
Requests == {<<>>, <<"disconnect">>} \cup Asking \cup Subscribing

\* The stream has told all it will.
Ended == {"over", "stopped"}

PageTypes ==
    /\ status \in [Connections -> {"none", "dropped"} \cup Shown]
    /\ form \in {"idle", "posting", "answered"}
    /\ answer \in 0..MaxSubmits
    /\ socket \in 0..MaxSubmits
    /\ shown \in [case : 0..MaxSubmits, status : Shown \cup {"nothing"}]
    /\ report \in 0..MaxSubmits
    /\ notes \subseteq {"why", "done", "case_not_found", "connection"}
    /\ ws \in [Connections -> {"none", "connecting", "failing", "open", "closing", "closed"}]
    /\ ready \in [Connections -> BOOLEAN]
    /\ queued \in [Connections -> {<<>>, <<"subscribe">>}]
    /\ toServer \in [Connections -> Requests]
    /\ toPage \in [Connections -> Seq(Frames)]
    /\ session \in [Connections -> {"none", "open", "joined", "gone"}]
    /\ stream \in [Connections -> Pumping \cup {"none", "over", "stopped"}]

(* How far connection n can be in its conversation with the service. *)
Conversation(n) ==
    /\ ws[n] # "open" => toPage[n] = <<>>
    /\ ws[n] = "open" => toServer[n] \in {<<>>, <<"connect">>, <<"subscribe">>}
    /\ ws[n] \in {"none", "connecting", "failing"} =>
          toServer[n] = <<>> /\ session[n] = "none" /\ stream[n] = "none" /\ ~ready[n]
    /\ ws[n] = "none" => queued[n] = <<>>
    /\ session[n] = "gone" <=> stream[n] = "stopped"
    /\ stream[n] \in Pumping \cup {"over"} =>
          ready[n] /\ toServer[n] \in {<<>>, <<"disconnect">>}
    /\ ready[n] => queued[n] = <<>> /\ toServer[n] \notin Asking
    /\ toServer[n] \in Subscribing => ready[n]
    /\ \A i \in 1..Len(toPage[n]) :
          toPage[n][i] \in Handshake =>
             /\ ~ready[n] /\ toServer[n] = <<>>
             /\ \A j \in 1..Len(toPage[n]) : toPage[n][j] \in Handshake => i = j

\* A case in status t has been through s.
Reached(s, t) ==
    /\ t # "none"
    /\ s = "running" => t # "queued"
    /\ s \in Final => t \in {s, "dropped"}

(* The records on their way are of statuses the case went through, in that
   order; a final one is the last. *)
Told(n) ==
    \A i \in 1..Len(toPage[n]) :
        toPage[n][i] \in Shown =>
           /\ Reached(toPage[n][i], status[n])
           /\ toPage[n][i] \in Final => stream[n] \in Ended
           /\ \A j \in 1..Len(toPage[n]) :
                 i < j /\ toPage[n][j] \in Shown =>
                    toPage[n][i] \notin Final /\ Stage(toPage[n][i]) <= Stage(toPage[n][j])

(* The page goes from one accepted case to a later one, and has given up every
   connection but the last. *)
OneAtATime ==
    /\ \A m, n \in Connections : m < n /\ status[n] # "none" => status[m] # "none"
    /\ answer # 0 => form = "answered" /\ status[answer] # "none" /\ socket < answer
    /\ socket # 0 => status[socket] # "none"
    /\ \A n \in Connections : /\ n > socket => ws[n] = "none"
                              /\ n < socket => ws[n] \notin {"connecting", "open"}

(* What is shown fits the case, and what is on its way to be shown next. *)
OnPage ==
    /\ shown.case = socket
    /\ shown.status = "nothing" <=> socket = 0
    /\ socket # 0 =>
          /\ Reached(shown.status, status[socket])
          /\ shown.status \in Final => stream[socket] \in Ended
          /\ \A i \in 1..Len(toPage[socket]) :
                /\ toPage[socket][i] \in Shown =>
                      /\ shown.status \notin Final
                      /\ Stage(shown.status) <= Stage(toPage[socket][i])
                /\ toPage[socket][i] = "done" =>
                      \/ shown.status \in Final
                      \/ \E j \in 1..Len(toPage[socket]) :
                            j < i /\ toPage[socket][j] \in Final
    /\ "done" \in notes => shown.status \in Final
    /\ report # 0 => report = socket /\ shown.status = "succeeded"

PageInv ==
    PageTypes /\ OneAtATime /\ OnPage /\ \A n \in Connections : Conversation(n) /\ Told(n)

(* -------------------------------- sequences ------------------------------- *)

\* Taking the next frame off a sequence shifts the others.
LEMMA TailShifts ==
    ASSUME NEW S, NEW s \in Seq(S), s # <<>>
    PROVE  /\ Head(s) = s[1] /\ Tail(s) \in Seq(S)
           /\ Len(s) \in Nat /\ Len(s) >= 1 /\ Len(Tail(s)) = Len(s) - 1
           /\ \A i \in 1..Len(Tail(s)) : i + 1 \in 2..Len(s) /\ Tail(s)[i] = s[i + 1]
  OBVIOUS

\* What is appended comes last.
LEMMA JoinedUp ==
    ASSUME NEW S, NEW s \in Seq(S), NEW t \in Seq(S)
    PROVE  /\ s \o t \in Seq(S) /\ Len(s) \in Nat /\ Len(t) \in Nat
           /\ Len(s \o t) = Len(s) + Len(t)
           /\ \A i \in 1..Len(s) : (s \o t)[i] = s[i]
           /\ \A i \in 1..Len(t) : (s \o t)[Len(s) + i] = t[i]
           /\ \A i \in 1..Len(s \o t) :
                 i \in 1..Len(s) \/ \E k \in 1..Len(t) : i = Len(s) + k
<1>1. /\ s \o t \in Seq(S) /\ Len(s) \in Nat /\ Len(t) \in Nat
      /\ Len(s \o t) = Len(s) + Len(t)
      /\ \A i \in 1..Len(s) : (s \o t)[i] = s[i]
      /\ \A i \in 1..Len(t) : (s \o t)[Len(s) + i] = t[i]
  OBVIOUS
<1>2. ASSUME NEW i \in 1..Len(s \o t), i \notin 1..Len(s)
      PROVE  \E k \in 1..Len(t) : i = Len(s) + k
  <2>1. i - Len(s) \in 1..Len(t) /\ i = Len(s) + (i - Len(s))
    BY <1>1, <1>2
  <2>2. QED BY <2>1
<1>3. QED BY <1>1, <1>2

LEMMA TwoJoined ==
    ASSUME NEW S, NEW s \in Seq(S), NEW a \in S, NEW b \in S
    PROVE  /\ s \o <<a, b>> \in Seq(S) /\ Len(s \o <<a, b>>) = Len(s) + 2
           /\ \A i \in 1..Len(s) : (s \o <<a, b>>)[i] = s[i]
           /\ (s \o <<a, b>>)[Len(s) + 1] = a /\ (s \o <<a, b>>)[Len(s) + 2] = b
<1>1. SUFFICES ASSUME NEW t \in Seq(S), t = <<a, b>>
               PROVE  /\ s \o t \in Seq(S) /\ Len(s \o t) = Len(s) + 2
                      /\ \A i \in 1..Len(s) : (s \o t)[i] = s[i]
                      /\ (s \o t)[Len(s) + 1] = a /\ (s \o t)[Len(s) + 2] = b
  OBVIOUS
<1>2. Len(t) = 2 /\ t[1] = a /\ t[2] = b
  BY <1>1
<1>3. /\ s \o t \in Seq(S) /\ Len(s \o t) = Len(s) + Len(t) /\ Len(s) \in Nat
      /\ \A i \in 1..Len(s) + Len(t) :
            (s \o t)[i] = IF i <= Len(s) THEN s[i] ELSE t[i - Len(s)]
  BY ConcatProperties
<1>4. /\ Len(s) + 1 \in 1..Len(s) + 2 /\ ~(Len(s) + 1 <= Len(s))
      /\ Len(s) + 2 \in 1..Len(s) + 2 /\ ~(Len(s) + 2 <= Len(s))
      /\ (Len(s) + 1) - Len(s) = 1 /\ (Len(s) + 2) - Len(s) = 2
      /\ \A i \in 1..Len(s) : i \in 1..Len(s) + 2 /\ i <= Len(s)
  BY <1>3
<1>5. QED BY <1>2, <1>3, <1>4

\* What the service reads of what it may be sent.
LEMMA RequestRead ==
    ASSUME NEW q \in Requests, q # <<>>
    PROVE  /\ Head(q) \in {"connect", "subscribe", "disconnect"}
           /\ Head(q) = "connect" => q \in Asking
           /\ Head(q) = "subscribe" => q \in Subscribing
           /\ Tail(q) \in {<<>>, <<"disconnect">>}
           /\ q \in {<<"connect">>, <<"subscribe">>, <<"disconnect">>} => Tail(q) = <<>>
           /\ Head(q) = "disconnect" => Tail(q) = <<>>
<1>1. \A a, b : /\ Head(<<a>>) = a /\ Tail(<<a>>) = <<>>
                /\ Head(<<a, b>>) = a /\ Tail(<<a, b>>) = <<b>>
  OBVIOUS
<1>2. \A a, b : /\ <<a, b>> # <<"connect">> /\ <<a, b>> # <<"subscribe">>
                /\ <<a, b>> # <<"disconnect">>
  OBVIOUS
<1>3. CASE q \in Asking
  BY <1>1, <1>2, <1>3 DEF Asking
<1>4. CASE q \in Subscribing
  BY <1>1, <1>2, <1>4 DEF Subscribing
<1>5. CASE q = <<"disconnect">>
  BY <1>1, <1>5
<1>6. QED BY <1>3, <1>4, <1>5 DEF Requests

\* A second request follows the first.
LEMMA AppendToOne == \A a, b : Append(<<a>>, b) = <<a, b>>
<1> SUFFICES ASSUME NEW a, NEW b PROVE Append(<<a>>, b) = <<a, b>>
  OBVIOUS
<1> DEFINE s == Append(<<a>>, b)
           t == <<a, b>>
<1>1. s \in Seq({a, b}) /\ t \in Seq({a, b})
  OBVIOUS
<1>2. Len(s) = 2 /\ Len(t) = 2 /\ s[1] = a /\ s[2] = b /\ t[1] = a /\ t[2] = b
  OBVIOUS
<1>3. \A i \in 1..Len(s) : s[i] = t[i]
  BY <1>2
<1>4. QED BY <1>1, <1>2, <1>3, SeqEqual

LEMMA RequestMade ==
    /\ Append(<<>>, "connect") = <<"connect">>
    /\ Append(<<>>, "disconnect") = <<"disconnect">>
    /\ Append(<<"connect">>, "disconnect") = <<"connect", "disconnect">>
    /\ Append(<<"subscribe">>, "disconnect") = <<"subscribe", "disconnect">>
    /\ Append(<<>>, "subscribe") = <<"subscribe">>
    /\ <<>> \o <<>> = <<>>
    /\ <<>> \o <<"subscribe">> = <<"subscribe">>
<1>1. /\ Append(<<>>, "connect") = <<"connect">>
      /\ Append(<<>>, "disconnect") = <<"disconnect">>
      /\ Append(<<>>, "subscribe") = <<"subscribe">>
  OBVIOUS
<1>2. <<>> \o <<>> = <<>> /\ <<>> \o <<"subscribe">> = <<"subscribe">>
  OBVIOUS
<1>3. QED BY <1>1, <1>2, AppendToOne

\* The different requests are different.
LEMMA RequestsApart ==
    /\ <<>> \notin Asking \cup Subscribing /\ <<"disconnect">> \notin Asking \cup Subscribing
    /\ Asking \cap Subscribing = {}
    /\ <<>> # <<"disconnect">> /\ <<>> # <<"subscribe">>
    /\ <<"connect">> \in Asking /\ <<"subscribe">> \in Subscribing
  BY DEF Asking, Subscribing

(* ----------------------------- one connection ----------------------------- *)

\* No record is added to what is on its way, and none taken off it.
SameRecords(n) ==
    \E k \in {0, 1} :
        /\ k = 1 => toPage[n][1] \notin Shown
        /\ \A i \in 1..Len(toPage'[n]) :
              \/ i + k \in 1..Len(toPage[n]) /\ toPage'[n][i] = toPage[n][i + k]
              \/ i + k \notin 1..Len(toPage[n]) /\ toPage'[n][i] \notin Shown \cup {"done"}

\* A stream that is over does not start again.
StreamGoesOn(n) == stream[n] \in Ended => stream'[n] \in Ended

\* The case goes through its statuses.
CaseGoesOn(n) == \A s \in Shown : Reached(s, status[n]) => Reached(s, status'[n])

LEMMA SameToPage ==
    ASSUME PageTypes, NEW n \in Connections
    PROVE  /\ toPage'[n] = toPage[n] => SameRecords(n)
           /\ toPage'[n] = <<>> => SameRecords(n)
           /\ \A f \in Frames \ (Shown \cup {"done"}) :
                 toPage'[n] = toPage[n] \o <<f>> => SameRecords(n)
           /\ toPage[n] # <<>> /\ toPage[n][1] \notin Shown /\ toPage'[n] = Tail(toPage[n])
                 => SameRecords(n)
<1>1. toPage[n] \in Seq(Frames) /\ Len(toPage[n]) \in Nat
  BY DEF PageTypes
<1>2. CASE toPage'[n] = toPage[n]
  BY <1>1, <1>2 DEF SameRecords
<1>3. CASE toPage'[n] = <<>>
  BY <1>1, <1>3 DEF SameRecords
<1>4. ASSUME NEW f \in Frames \ (Shown \cup {"done"}), toPage'[n] = toPage[n] \o <<f>>
      PROVE  SameRecords(n)
  <2>1. <<f>> \in Seq(Frames) /\ Len(<<f>>) = 1 /\ <<f>>[1] = f
    OBVIOUS
  <2>2. /\ Len(toPage'[n]) = Len(toPage[n]) + 1
        /\ \A i \in 1..Len(toPage[n]) : toPage'[n][i] = toPage[n][i]
        /\ toPage'[n][Len(toPage[n]) + 1] = f
    BY <1>1, <1>4, <2>1, JoinedUp
  <2>3. QED BY <1>1, <2>2 DEF SameRecords
<1>5. CASE toPage[n] # <<>> /\ toPage[n][1] \notin Shown /\ toPage'[n] = Tail(toPage[n])
  BY <1>1, <1>5, TailShifts DEF SameRecords
<1>6. QED BY <1>2, <1>3, <1>4, <1>5

\* Such a step leaves in order what is on its way ...
LEMMA ToldStays ==
    ASSUME PageTypes, NEW n \in Connections, Told(n), SameRecords(n), StreamGoesOn(n),
           CaseGoesOn(n), Len(toPage'[n]) \in Nat
    PROVE  Told(n)'
<1>1. Len(toPage[n]) \in Nat
  BY DEF PageTypes
<1>2. PICK k \in {0, 1} :
         \A i \in 1..Len(toPage'[n]) :
              \/ i + k \in 1..Len(toPage[n]) /\ toPage'[n][i] = toPage[n][i + k]
              \/ i + k \notin 1..Len(toPage[n]) /\ toPage'[n][i] \notin Shown \cup {"done"}
  BY DEF SameRecords
<1>3. ASSUME NEW i \in 1..Len(toPage'[n]), toPage'[n][i] \in Shown
      PROVE  /\ Reached(toPage'[n][i], status'[n])
             /\ toPage'[n][i] \in Final => stream'[n] \in Ended
             /\ \A j \in 1..Len(toPage'[n]) :
                   i < j /\ toPage'[n][j] \in Shown =>
                      toPage'[n][i] \notin Final /\ Stage(toPage'[n][i]) <= Stage(toPage'[n][j])
  <2>1. i + k \in 1..Len(toPage[n]) /\ toPage'[n][i] = toPage[n][i + k]
    BY <1>2, <1>3
  <2>2. \A j \in 1..Len(toPage'[n]) : i < j => i + k < j + k
    BY <1>1, <2>1
  <2>3. QED BY <1>2, <1>3, <2>1, <2>2 DEF Told, StreamGoesOn, CaseGoesOn
<1>4. QED BY <1>3 DEF Told

\* ... and what is shown.
LEMMA OnPageStays ==
    ASSUME PageTypes, OnPage, UNCHANGED <<socket, shown, report>>,
           "done" \in notes' => "done" \in notes \/ shown.status \in Final,
           \A n \in Connections : /\ SameRecords(n) /\ StreamGoesOn(n) /\ CaseGoesOn(n)
                                  /\ Len(toPage'[n]) \in Nat
    PROVE  OnPage'
<1>1. CASE socket = 0
  BY <1>1 DEF OnPage
<1>2. CASE socket # 0
  <2>1. socket \in Connections /\ Len(toPage[socket]) \in Nat /\ shown.status \in Shown
    BY <1>2 DEF PageTypes, Connections, OnPage
  <2>2. PICK k \in {0, 1} :
           /\ k = 1 => toPage[socket][1] \notin Shown
           /\ \A i \in 1..Len(toPage'[socket]) :
              \/ i + k \in 1..Len(toPage[socket]) /\ toPage'[socket][i] = toPage[socket][i + k]
              \/ /\ i + k \notin 1..Len(toPage[socket])
                 /\ toPage'[socket][i] \notin Shown \cup {"done"}
    BY <2>1 DEF SameRecords
  <2>3. /\ Reached(shown.status, status'[socket])
        /\ shown.status \in Final => stream'[socket] \in Ended
    BY <1>2, <2>1 DEF OnPage, StreamGoesOn, CaseGoesOn
  <2>4. ASSUME NEW i \in 1..Len(toPage'[socket])
        PROVE  /\ toPage'[socket][i] \in Shown =>
                      /\ shown.status \notin Final
                      /\ Stage(shown.status) <= Stage(toPage'[socket][i])
               /\ toPage'[socket][i] = "done" =>
                      \/ shown.status \in Final
                      \/ \E j \in 1..Len(toPage'[socket]) :
                            j < i /\ toPage'[socket][j] \in Final
    <3>1. toPage'[socket][i] \in Shown =>
                      /\ shown.status \notin Final
                      /\ Stage(shown.status) <= Stage(toPage'[socket][i])
      BY <1>2, <2>1, <2>2 DEF OnPage
    <3>2. ASSUME toPage'[socket][i] = "done", shown.status \notin Final
          PROVE  \E j \in 1..Len(toPage'[socket]) : j < i /\ toPage'[socket][j] \in Final
      <4>1. i + k \in 1..Len(toPage[socket]) /\ toPage[socket][i + k] = "done"
        BY <2>2, <3>2
      <4>2. PICK j \in 1..Len(toPage[socket]) : j < i + k /\ toPage[socket][j] \in Final
        BY <1>2, <3>2, <4>1 DEF OnPage
      <4>3. j # 1 \/ k = 0
        BY <2>2, <4>2 DEF Shown
      <4>4. /\ j - k \in 1..Len(toPage'[socket]) /\ j - k < i
            /\ (j - k) + k = j
        BY <2>1, <4>2, <4>3
      <4>5. toPage'[socket][j - k] = toPage[socket][j]
        BY <2>2, <4>4
      <4>6. QED BY <4>2, <4>4, <4>5
    <3>3. QED BY <3>1, <3>2
  <2>5. QED BY <1>2, <2>3, <2>4 DEF OnPage
<1>3. QED BY <1>1, <1>2

(* ------------------------------- the service ------------------------------ *)

LEMMA ProceedMoves ==
    ASSUME PageTypes, Proceed
    PROVE  /\ status' \in [Connections -> {"none", "dropped"} \cup Shown]
           /\ \A n \in Connections : CaseGoesOn(n) /\ (status'[n] = "none" <=> status[n] = "none")
<1>1. status \in [Connections -> {"none", "dropped"} \cup Shown]
  BY DEF PageTypes
<1>2. /\ "dropped" \notin Shown \cup {"none"} /\ "none" \notin Shown
      /\ "queued" \in Shown \ Final /\ "running" \in Shown \ Final /\ Final \subseteq Shown
  BY DEF Shown, Final, Life!Final
<1>3. ASSUME NEW n \in Connections, NEW s \in Shown \cup {"dropped"},
             status' = [status EXCEPT ![n] = s],
             \/ status[n] = "queued" /\ s # "queued"
             \/ status[n] = "running" /\ s \in Final \cup {"dropped"}
             \/ status[n] \in Final /\ s = "dropped"
      PROVE  /\ status' \in [Connections -> {"none", "dropped"} \cup Shown]
             /\ \A m \in Connections :
                   CaseGoesOn(m) /\ (status'[m] = "none" <=> status[m] = "none")
  <2>1. /\ status'[n] = s /\ \A m \in Connections \ {n} : status'[m] = status[m]
        /\ status[n] # "none" /\ s # "none"
    BY <1>1, <1>2, <1>3
  <2>2. CaseGoesOn(n)
    BY <1>2, <1>3, <2>1 DEF CaseGoesOn, Reached
  <2>3. \A m \in Connections \ {n} : CaseGoesOn(m)
    BY <2>1 DEF CaseGoesOn
  <2>4. QED BY <1>1, <1>3, <2>1, <2>2, <2>3
<1>4. CASE \E n \in Connections :
              Life!Begin(n) \/ Life!Settle(n) \/ Life!Abandon(n) \/ Life!Drop(n)
  <2>1. PICK n \in Connections :
              Life!Begin(n) \/ Life!Settle(n) \/ Life!Abandon(n) \/ Life!Drop(n)
    BY <1>4
  <2>2. CASE Life!Begin(n)
    BY <1>2, <1>3, <2>2 DEF Life!Begin
  <2>3. CASE Life!Settle(n)
    BY <1>2, <1>3, <2>3 DEF Life!Settle, Final
  <2>4. CASE Life!Abandon(n)
    BY <1>2, <1>3, <2>4 DEF Life!Abandon, Shown, Final, Life!Final
  <2>5. CASE Life!Drop(n)
    BY <1>2, <1>3, <2>5 DEF Life!Drop, Life!Unsettled, Final
  <2>6. QED BY <2>1, <2>2, <2>3, <2>4, <2>5
<1>5. CASE \E V \in SUBSET Life!With("succeeded") : Life!Expire(V)
  <2>1. PICK V \in SUBSET Life!With("succeeded") : Life!Expire(V)
    BY <1>5
  <2>2. /\ \A v \in V : status[v] \in Final
        /\ status' = [n \in Connections |-> IF n \in V THEN "dropped" ELSE status[n]]
    BY <2>1 DEF Life!Expire, Life!Dropping, Life!Submissions, Connections, Final
  <2>3. \A n \in Connections : CaseGoesOn(n)
    BY <1>1, <1>2, <2>2 DEF CaseGoesOn, Reached
  <2>4. QED BY <1>1, <1>2, <2>2, <2>3
<1>6. QED BY <1>4, <1>5 DEF Proceed

\* Cases are accepted in order, each once.
LEMMA AcceptMoves ==
    ASSUME PageInv, NEW n \in Connections, Accept(n)
    PROVE  /\ status' \in [Connections -> {"none", "dropped"} \cup Shown]
           /\ \A m \in Connections : CaseGoesOn(m)
           /\ OneAtATime'
<1>1. /\ status \in [Connections -> {"none", "dropped"} \cup Shown]
      /\ Connections \subseteq Nat /\ socket \in Nat /\ n # 0
      /\ socket # 0 => socket \in Connections
      /\ "queued" \in Shown
  BY PageAssumption DEF PageInv, PageTypes, Connections, Shown
<1>2. /\ status[n] = "none" /\ \A m \in Connections : m < n => status[m] # "none"
      /\ status'[n] = "queued" /\ \A m \in Connections \ {n} : status'[m] = status[m]
      /\ status' \in [Connections -> {"none", "dropped"} \cup Shown]
  BY <1>1 DEF Accept, Life!Accept, Life!Dropping, Life!Submissions, Connections
<1>3. \A m \in Connections : CaseGoesOn(m)
  BY <1>2 DEF CaseGoesOn, Reached
<1>4. socket < n
  BY <1>1, <1>2 DEF PageInv, OneAtATime, Connections
<1>5. \A m, k \in Connections : m < k /\ status'[k] # "none" => status'[m] # "none"
  BY <1>1, <1>2 DEF PageInv, OneAtATime
<1>6. UNCHANGED <<socket, ws>> /\ answer' = n /\ form' = "answered"
  BY DEF Accept, page, client
<1>7. QED BY <1>1, <1>2, <1>3, <1>4, <1>5, <1>6 DEF PageInv, OneAtATime

(* ----------------------------- conversations ------------------------------ *)

\* Nothing happens on connection n.
Untouched(n) ==
    /\ ws'[n] = ws[n] /\ ready'[n] = ready[n] /\ queued'[n] = queued[n]
    /\ toServer'[n] = toServer[n] /\ toPage'[n] = toPage[n]
    /\ session'[n] = session[n] /\ stream'[n] = stream[n]

LEMMA UntouchedTalks ==
    ASSUME NEW n \in Connections, Conversation(n), Untouched(n)
    PROVE  Conversation(n)'
  BY DEF Conversation, Untouched

\* The kinds of a connection's values.
ConnectionTypes(n) ==
    /\ ws[n] \in {"none", "connecting", "failing", "open", "closing", "closed"}
    /\ ready[n] \in BOOLEAN
    /\ queued[n] \in {<<>>, <<"subscribe">>}
    /\ toServer[n] \in Requests
    /\ toPage[n] \in Seq(Frames)
    /\ session[n] \in {"none", "open", "joined", "gone"}
    /\ stream[n] \in Pumping \cup {"none", "over", "stopped"}

Domains ==
    /\ ws' = [n \in Connections |-> ws'[n]]
    /\ ready' = [n \in Connections |-> ready'[n]]
    /\ queued' = [n \in Connections |-> queued'[n]]
    /\ toServer' = [n \in Connections |-> toServer'[n]]
    /\ toPage' = [n \in Connections |-> toPage'[n]]
    /\ session' = [n \in Connections |-> session'[n]]
    /\ stream' = [n \in Connections |-> stream'[n]]

TalkGoesOn == Domains /\ \A m \in Connections : ConnectionTypes(m)' /\ Conversation(m)'
RecordsStay == \A m \in Connections : SameRecords(m) /\ StreamGoesOn(m)

\* Something happens on connection n alone.
LEMMA OneTalks ==
    ASSUME PageInv, NEW n \in Connections,
           Domains, \A m \in Connections \ {n} : Untouched(m),
           ConnectionTypes(n)', Conversation(n)'
    PROVE  TalkGoesOn /\ (SameRecords(n) /\ StreamGoesOn(n) => RecordsStay)
<1>1. \A m \in Connections : Conversation(m) /\ ConnectionTypes(m)
  BY DEF PageInv, PageTypes, ConnectionTypes
<1>2. \A m \in Connections \ {n} : /\ ConnectionTypes(m)' /\ Conversation(m)'
                                   /\ SameRecords(m) /\ StreamGoesOn(m)
  BY <1>1, UntouchedTalks, SameToPage
     DEF PageInv, Untouched, ConnectionTypes, StreamGoesOn
<1>3. QED BY <1>2 DEF TalkGoesOn, RecordsStay

\* Connection n is opened, fails to, breaks, or is closed by the other end.
LEMMA OpeningTalks ==
    ASSUME PageInv, NEW n \in Connections,
           Open(n) \/ FailToOpen(n) \/ Break(n) \/ CloseEnds(n) \/ Notice(n)
    PROVE  TalkGoesOn /\ RecordsStay
<1>1. /\ \A m \in Connections : Conversation(m) /\ ConnectionTypes(m)
      /\ "stopped" \notin Pumping
  BY DEF PageInv, PageTypes, ConnectionTypes, Pumping
<1>2. Domains /\ \A m \in Connections \ {n} : Untouched(m)
  BY DEF PageInv, PageTypes, Domains, Untouched, Open, FailToOpen, Break, CloseEnds,
         Notice, Hangs, page, client, wire, service
<1>3. CASE Open(n)
  <2>1. /\ ws'[n] = "open" /\ session'[n] = "open" /\ toPage'[n] = <<"open">>
        /\ ready'[n] = ready[n] /\ queued'[n] = queued[n]
        /\ toServer'[n] = toServer[n] /\ stream'[n] = stream[n]
        /\ toServer[n] = <<>> /\ stream[n] = "none" /\ ~ready[n] /\ toPage[n] = <<>>
    BY <1>1, <1>3 DEF PageInv, PageTypes, Open, Conversation
  <2>2. <<"open">> = <<>> \o <<"open">> /\ <<"open">> \in Seq(Frames)
    BY DEF Frames
  <2>3. SameRecords(n) /\ StreamGoesOn(n)
    <3>1. "open" \in Frames \ (Shown \cup {"done"})
      BY DEF Frames, Shown, Final, Life!Final
    <3>2. toPage'[n] = toPage[n] \o <<"open">>
      BY <2>1, <2>2
    <3>3. SameRecords(n)
      BY <3>1, <3>2, SameToPage DEF PageInv
    <3>4. QED BY <2>1, <3>3 DEF StreamGoesOn, Ended
  <2>4. ConnectionTypes(n)'
    BY <1>1, <2>1, <2>2 DEF ConnectionTypes
  <2>5. Conversation(n)'
    <3>1. Len(<<"open">>) = 1 /\ \A k \in 1..1 : k = 1
      OBVIOUS
    <3>2. <<>> \notin Subscribing /\ <<>> \notin Asking
      BY RequestsApart
    <3>3. "none" \notin Pumping \cup {"over"}
      BY DEF Pumping
    <3>4. QED BY <2>1, <3>1, <3>2, <3>3 DEF Conversation
  <2>6. QED BY <1>2, OneTalks, <2>3, <2>4, <2>5
<1>4. CASE FailToOpen(n)
  <2>1. /\ ws'[n] = "closed" /\ session'[n] = session[n] /\ toPage'[n] = toPage[n]
        /\ ready'[n] = ready[n] /\ queued'[n] = queued[n]
        /\ toServer'[n] = toServer[n] /\ stream'[n] = stream[n]
        /\ ws[n] # "open"
    BY <1>1, <1>4 DEF PageInv, PageTypes, FailToOpen, wire, service
  <2>2. ConnectionTypes(n)' /\ Conversation(n)'
    BY <1>1, <2>1 DEF ConnectionTypes, Conversation
  <2>3. SameRecords(n) /\ StreamGoesOn(n)
    BY <2>1, SameToPage DEF PageInv, StreamGoesOn, Ended
  <2>4. QED BY <1>2, OneTalks, <2>2, <2>3
<1>5. CASE Break(n) \/ CloseEnds(n) \/ Notice(n)
  <2>1. /\ ws'[n] = "closed" /\ toPage'[n] = <<>> /\ toServer'[n] = <<>>
        /\ ready'[n] = ready[n] /\ queued'[n] = queued[n]
        /\ \/ session'[n] = session[n] /\ stream'[n] = stream[n]
           \/ session'[n] = "gone" /\ stream'[n] = "stopped"
    BY <1>1, <1>5
       DEF PageInv, PageTypes, Break, CloseEnds, Notice, Hangs, Conversation, page,
           client, service
  <2>2. Len(<<>>) = 0 /\ <<>> \notin Asking /\ <<>> \notin Subscribing /\ <<>> \in Requests
        /\ <<>> \in Seq(Frames) /\ "stopped" \notin Pumping \cup {"over"}
    BY RequestsApart DEF Requests, Pumping
  <2>3. ConnectionTypes(n)'
    BY <1>1, <2>1, <2>2 DEF ConnectionTypes
  <2>4. Conversation(n)'
    BY <1>1, <2>1, <2>2 DEF Conversation
  <2>5. SameRecords(n) /\ StreamGoesOn(n)
    BY <1>1, <2>1, SameToPage DEF PageInv, StreamGoesOn, Ended
  <2>6. QED BY <1>2, OneTalks, <2>3, <2>4, <2>5
<1>6. QED BY <1>3, <1>4, <1>5

\* The service reads what it was sent, or hangs up.
LEMMA ServiceTalks ==
    ASSUME PageInv, NEW n \in Connections, Receive(n) \/ Dismiss(n)
    PROVE  TalkGoesOn /\ RecordsStay
<1>1. /\ Conversation(n) /\ ConnectionTypes(n) /\ Len(toPage[n]) \in Nat
      /\ "stopped" \notin Pumping \cup {"over"} /\ "starting" \in Pumping
      /\ "none" \notin Pumping \cup {"over"}
  BY DEF PageInv, PageTypes, ConnectionTypes, Pumping
<1>2. Domains /\ \A m \in Connections \ {n} : Untouched(m)
  BY DEF PageInv, PageTypes, Domains, Untouched, Receive, Dismiss, Hangs, Push, page,
         client, wire, service
<1>3. /\ "connected" \in Frames \ (Shown \cup {"done"}) /\ "connected" \in Handshake
      /\ "close" \in Frames \ (Shown \cup {"done"}) /\ "close" \notin Handshake
  BY DEF Frames, Shown, Final, Life!Final, Handshake
<1>4. ASSUME NEW f \in Frames, toPage'[n] = toPage[n] \o <<f>>
      PROVE  /\ toPage'[n] \in Seq(Frames) /\ Len(toPage'[n]) = Len(toPage[n]) + 1
             /\ \A i \in 1..Len(toPage[n]) : toPage'[n][i] = toPage[n][i]
             /\ toPage'[n][Len(toPage[n]) + 1] = f
  <2>1. <<f>> \in Seq(Frames) /\ Len(<<f>>) = 1 /\ <<f>>[1] = f
    OBVIOUS
  <2>2. QED BY <1>1, <1>4, <2>1, JoinedUp DEF ConnectionTypes
<1>5. ws'[n] = ws[n] /\ ready'[n] = ready[n] /\ queued'[n] = queued[n]
  BY DEF Receive, Dismiss, client
<1>6. ASSUME NEW f \in Frames \ (Shown \cup {"done"}), Push(n, <<f>>)
      PROVE  /\ toPage'[n] = IF ws[n] = "open" THEN toPage[n] \o <<f>> ELSE toPage[n]
             /\ SameRecords(n)
  <2>1. toPage'[n] = IF ws[n] = "open" THEN toPage[n] \o <<f>> ELSE toPage[n]
    BY <1>6 DEF Push, PageInv, PageTypes
  <2>2. QED BY <2>1, SameToPage DEF PageInv
<1>7. CASE Receive(n) /\ Head(toServer[n]) = "connect"
  <2>1. /\ toServer[n] \in Asking /\ toServer'[n] = Tail(toServer[n])
        /\ toServer'[n] \in {<<>>, <<"disconnect">>}
        /\ toServer[n] = <<"connect">> => toServer'[n] = <<>>
        /\ session'[n] = "joined" /\ stream'[n] = stream[n] /\ Push(n, <<"connected">>)
        /\ session[n] # "gone" /\ toServer[n] # <<>>
    BY <1>1, <1>7, RequestRead DEF Receive, PageInv, PageTypes, ConnectionTypes
  <2>2. /\ ~ready[n] /\ stream[n] \notin Pumping \cup {"over"} /\ stream[n] # "stopped"
        /\ ws[n] \notin {"none", "connecting", "failing"}
        /\ \A i \in 1..Len(toPage[n]) : toPage[n][i] \notin Handshake
        /\ ws[n] = "open" => toServer'[n] = <<>>
    BY <1>1, <2>1, RequestsApart DEF Conversation
  <2>3. SameRecords(n) /\ StreamGoesOn(n)
    BY <1>3, <1>6, <2>1 DEF StreamGoesOn, Ended
  <2>4. ConnectionTypes(n)'
    BY <1>1, <1>3, <1>4, <1>5, <1>6, <2>1 DEF ConnectionTypes, Requests
  <2>5. Conversation(n)'
    <3>1. CASE ws[n] = "open"
      <4>1. toPage'[n] = toPage[n] \o <<"connected">>
        BY <1>3, <1>6, <2>1, <3>1
      <4>2. \A i \in 1..Len(toPage'[n]) :
               toPage'[n][i] \in Handshake => i = Len(toPage[n]) + 1
        <5>1. /\ Len(toPage'[n]) = Len(toPage[n]) + 1
              /\ \A i \in 1..Len(toPage[n]) : toPage'[n][i] = toPage[n][i]
          BY <1>3, <1>4, <4>1
        <5>2. QED BY <1>1, <2>2, <5>1
      <4>3. QED BY <1>1, <1>5, <2>1, <2>2, <3>1, <4>1, <4>2, RequestsApart DEF Conversation
    <3>2. CASE ws[n] # "open"
      <4>1. toPage'[n] = <<>>
        BY <1>1, <1>3, <1>6, <2>1, <3>2 DEF Conversation
      <4>2. QED BY <1>1, <1>5, <2>1, <2>2, <3>2, <4>1, RequestsApart DEF Conversation
    <3>3. QED BY <3>1, <3>2
  <2>6. QED BY <1>2, <2>3, <2>4, <2>5, OneTalks
<1>8. CASE Receive(n) /\ Head(toServer[n]) = "subscribe"
  <2>1. /\ toServer[n] \in Subscribing /\ toServer'[n] = Tail(toServer[n])
        /\ toServer'[n] \in {<<>>, <<"disconnect">>}
        /\ toServer[n] = <<"subscribe">> => toServer'[n] = <<>>
        /\ session'[n] = session[n] /\ stream'[n] = "starting" /\ toPage'[n] = toPage[n]
        /\ session[n] # "gone" /\ toServer[n] # <<>>
    BY <1>1, <1>8, RequestRead DEF Receive, PageInv, PageTypes, ConnectionTypes
  <2>2. /\ ready[n] /\ stream[n] \notin Pumping /\ session[n] # "gone"
        /\ ws[n] \notin {"none", "connecting", "failing"} /\ queued[n] = <<>>
        /\ \A i \in 1..Len(toPage[n]) : toPage[n][i] \notin Handshake
        /\ ws[n] = "open" => toServer'[n] = <<>>
    BY <1>1, <2>1, RequestsApart DEF Conversation
  <2>3. SameRecords(n) /\ StreamGoesOn(n)
    <3>1. stream[n] \notin Ended
      BY <1>1, <2>1, <2>2, RequestsApart DEF Conversation, Ended
    <3>2. QED BY <2>1, <3>1, SameToPage DEF PageInv, StreamGoesOn
  <2>4. ConnectionTypes(n)'
    BY <1>1, <1>5, <2>1 DEF ConnectionTypes, Requests
  <2>5. Conversation(n)'
    BY <1>1, <1>5, <2>1, <2>2, RequestsApart DEF Conversation, Pumping
  <2>6. QED BY <1>2, <2>3, <2>4, <2>5, OneTalks
<1>9. CASE Receive(n) /\ Head(toServer[n]) = "disconnect"
  <2>1. /\ toServer'[n] = <<>> /\ session'[n] = "gone" /\ stream'[n] = "stopped"
        /\ toPage'[n] = toPage[n]
        /\ ws[n] \notin {"none", "connecting", "failing"}
    BY <1>1, <1>9, RequestRead
       DEF Receive, Hangs, PageInv, PageTypes, ConnectionTypes, Conversation
  <2>2. SameRecords(n) /\ StreamGoesOn(n)
    BY <1>1, <2>1, SameToPage DEF PageInv, StreamGoesOn, Ended
  <2>3. ConnectionTypes(n)'
    BY <1>1, <1>5, <2>1 DEF ConnectionTypes, Requests
  <2>4. Conversation(n)'
    BY <1>1, <1>5, <2>1, RequestsApart DEF Conversation
  <2>5. QED BY <1>2, <2>2, <2>3, <2>4, OneTalks
<1>10. CASE Dismiss(n)
  <2>1. /\ toServer'[n] = <<>> /\ session'[n] = "gone" /\ stream'[n] = "stopped"
        /\ Push(n, <<"close">>) /\ ws[n] \notin {"none", "connecting", "failing"}
    BY <1>1, <1>10 DEF Dismiss, Hangs, PageInv, PageTypes, Conversation
  <2>2. SameRecords(n) /\ StreamGoesOn(n)
    BY <1>1, <1>3, <1>6, <2>1 DEF StreamGoesOn, Ended
  <2>3. ConnectionTypes(n)'
    BY <1>1, <1>3, <1>4, <1>5, <1>6, <2>1 DEF ConnectionTypes, Requests
  <2>4. Conversation(n)'
    <3>1. CASE ws[n] = "open"
      <4>1. toPage'[n] = toPage[n] \o <<"close">>
        BY <1>3, <1>6, <2>1, <3>1
      <4>2. \A i \in 1..Len(toPage'[n]) :
               toPage'[n][i] \in Handshake => i \in 1..Len(toPage[n]) /\ toPage[n][i] \in Handshake
        BY <1>1, <1>3, <1>4, <4>1
      <4>3. QED BY <1>1, <1>5, <2>1, <3>1, <4>2, RequestsApart DEF Conversation
    <3>2. CASE ws[n] # "open"
      <4>1. toPage'[n] = <<>>
        BY <1>1, <1>3, <1>6, <2>1, <3>2 DEF Conversation
      <4>2. QED BY <1>1, <1>5, <2>1, <3>2, <4>1, RequestsApart DEF Conversation
    <3>3. QED BY <3>1, <3>2
  <2>5. QED BY <1>2, <2>2, <2>3, <2>4, OneTalks
<1>11. QED BY <1>7, <1>8, <1>9, <1>10 DEF Receive

\* The page takes the next frame.
LEMMA FrameTaken ==
    ASSUME PageInv, NEW n \in Connections, ws[n] = "open", toPage[n] # <<>>, Taken(n)
    PROVE  /\ Head(toPage[n]) = toPage[n][1] /\ 1 \in 1..Len(toPage[n])
           /\ toPage'[n] = Tail(toPage[n]) /\ toPage'[n] \in Seq(Frames)
           /\ Len(toPage[n]) \in Nat /\ Len(toPage'[n]) = Len(toPage[n]) - 1
           /\ \A i \in 1..Len(toPage'[n]) :
                 /\ i + 1 \in 2..Len(toPage[n]) /\ i + 1 \in 1..Len(toPage[n])
                 /\ toPage'[n][i] = toPage[n][i + 1]
           /\ toPage[n][1] \notin Shown => SameRecords(n)
           /\ toPage[n][1] \in Handshake =>
                 \A i \in 1..Len(toPage'[n]) : toPage'[n][i] \notin Handshake
<1>1. toPage[n] \in Seq(Frames) /\ toPage'[n] = Tail(toPage[n]) /\ Conversation(n)
  BY DEF PageInv, PageTypes, Taken
<1>2. /\ Head(toPage[n]) = toPage[n][1] /\ 1 \in 1..Len(toPage[n])
      /\ toPage'[n] \in Seq(Frames)
      /\ Len(toPage[n]) \in Nat /\ Len(toPage'[n]) = Len(toPage[n]) - 1
      /\ \A i \in 1..Len(toPage'[n]) :
            /\ i + 1 \in 2..Len(toPage[n]) /\ i + 1 \in 1..Len(toPage[n])
            /\ toPage'[n][i] = toPage[n][i + 1]
  BY <1>1, TailShifts
<1>3. toPage[n][1] \notin Shown => SameRecords(n)
  BY <1>1, SameToPage DEF PageInv
<1>4. ASSUME toPage[n][1] \in Handshake, NEW i \in 1..Len(toPage'[n])
      PROVE  toPage'[n][i] \notin Handshake
  BY <1>1, <1>2, <1>4 DEF Conversation
<1>5. QED BY <1>1, <1>2, <1>3, <1>4

\* The handshake goes on, or the service has hung up.
LEMMA HandshakeTalks ==
    ASSUME PageInv, NEW n \in Connections, Greet(n) \/ Join(n) \/ HungUpOn(n)
    PROVE  TalkGoesOn /\ RecordsStay
<1>1. /\ Conversation(n) /\ ConnectionTypes(n)
      /\ ws[n] = "open" /\ toPage[n] # <<>>
      /\ session'[n] = session[n] /\ stream'[n] = stream[n]
  BY DEF PageInv, PageTypes, ConnectionTypes, Greet, Join, HungUpOn, Handles, service
<1>2. Domains /\ \A m \in Connections \ {n} : Untouched(m)
  BY DEF PageInv, PageTypes, Domains, Untouched, Greet, Join, HungUpOn, Taken, page,
         client, service
<1>3. "open" \in Handshake \ Shown /\ "connected" \in Handshake \ Shown
  BY DEF Handshake, Shown, Final, Life!Final
<1>4. CASE Greet(n)
  <2>1. /\ toPage[n][1] = "open" /\ toPage'[n] \in Seq(Frames) /\ SameRecords(n)
        /\ \A i \in 1..Len(toPage'[n]) : toPage'[n][i] \notin Handshake
        /\ 1 \in 1..Len(toPage[n])
    BY <1>1, <1>3, <1>4, FrameTaken DEF Greet, Handles
  <2>2. ~ready[n] /\ toServer[n] = <<>>
    BY <1>1, <1>3, <2>1 DEF Conversation
  <2>3. /\ ws'[n] = "open" /\ ready'[n] = ready[n] /\ queued'[n] = queued[n]
        /\ toServer'[n] = <<"connect">>
    BY <1>1, <1>4, <2>2, RequestMade DEF Greet, client, PageInv, PageTypes
  <2>4. ConnectionTypes(n)'
    BY <1>1, <2>1, <2>3, RequestsApart DEF ConnectionTypes, Requests
  <2>5. Conversation(n)'
    BY <1>1, <2>1, <2>2, <2>3, RequestsApart DEF Conversation
  <2>6. StreamGoesOn(n)
    BY <1>1 DEF StreamGoesOn, Ended
  <2>7. QED BY <1>2, <2>1, <2>4, <2>5, <2>6, OneTalks
<1>5. CASE Join(n)
  <2>1. /\ toPage[n][1] = "connected" /\ toPage'[n] \in Seq(Frames) /\ SameRecords(n)
        /\ \A i \in 1..Len(toPage'[n]) : toPage'[n][i] \notin Handshake
        /\ 1 \in 1..Len(toPage[n])
    BY <1>1, <1>3, <1>5, FrameTaken DEF Join, Handles
  <2>2. ~ready[n] /\ toServer[n] = <<>>
    BY <1>1, <1>3, <2>1 DEF Conversation
  <2>3. /\ ws'[n] = "open" /\ ready'[n] = TRUE /\ queued'[n] = <<>>
        /\ toServer'[n] = <<>> \o queued[n]
    BY <1>1, <1>5, <2>2 DEF Join, PageInv, PageTypes
  <2>4. toServer'[n] \in {<<>>, <<"subscribe">>}
    BY <1>1, <2>3, RequestMade DEF ConnectionTypes
  <2>5. ConnectionTypes(n)'
    BY <1>1, <2>1, <2>3, <2>4, RequestsApart DEF ConnectionTypes, Requests
  <2>6. Conversation(n)'
    BY <1>1, <2>1, <2>2, <2>3, <2>4, RequestsApart DEF Conversation
  <2>7. StreamGoesOn(n)
    BY <1>1 DEF StreamGoesOn, Ended
  <2>8. QED BY <1>2, <2>1, <2>5, <2>6, <2>7, OneTalks
<1>6. CASE HungUpOn(n)
  <2>1. /\ ws'[n] = "closing" /\ ready'[n] = ready[n] /\ queued'[n] = queued[n]
        /\ toServer'[n] = toServer[n] /\ toPage'[n] = <<>>
    BY <1>1, <1>6 DEF HungUpOn, PageInv, PageTypes
  <2>2. ConnectionTypes(n)'
    BY <1>1, <2>1 DEF ConnectionTypes
  <2>3. Conversation(n)'
    BY <1>1, <2>1 DEF Conversation
  <2>4. SameRecords(n) /\ StreamGoesOn(n)
    BY <1>1, <2>1, SameToPage DEF PageInv, StreamGoesOn, Ended
  <2>5. QED BY <1>2, <2>2, <2>3, <2>4, OneTalks
<1>7. QED BY <1>4, <1>5, <1>6

\* A record or a note is taken.
LEMMA RenderTalks ==
    ASSUME PageInv, NEW n \in Connections, Show(n) \/ Note(n)
    PROVE  TalkGoesOn /\ (Note(n) => RecordsStay)
<1>1. /\ Conversation(n) /\ ConnectionTypes(n)
      /\ ws[n] = "open" /\ toPage[n] # <<>> /\ Taken(n)
      /\ session'[n] = session[n] /\ stream'[n] = stream[n] /\ ws'[n] = ws[n]
      /\ ready'[n] = ready[n] /\ queued'[n] = queued[n] /\ toServer'[n] = toServer[n]
  BY DEF PageInv, PageTypes, ConnectionTypes, Show, Note, Handles, client, service
<1>2. Domains /\ \A m \in Connections \ {n} : Untouched(m)
  BY <1>1 DEF PageInv, PageTypes, Domains, Untouched, Show, Note, Taken, client, service
<1>3. ConnectionTypes(n)'
  BY <1>1, FrameTaken DEF ConnectionTypes
<1>4. Conversation(n)'
  <2>1. \A i \in 1..Len(toPage'[n]) :
           toPage'[n][i] \in Handshake =>
             /\ ~ready[n] /\ toServer[n] = <<>>
             /\ \A j \in 1..Len(toPage'[n]) : toPage'[n][j] \in Handshake => i = j
    <3>1. \A i \in 1..Len(toPage'[n]) :
             i + 1 \in 1..Len(toPage[n]) /\ toPage'[n][i] = toPage[n][i + 1]
      BY <1>1, FrameTaken
    <3>2. \A i, j \in 1..Len(toPage'[n]) : i + 1 = j + 1 => i = j
      BY <1>1, FrameTaken
    <3>3. \A i \in 1..Len(toPage[n]) :
             toPage[n][i] \in Handshake =>
               /\ ~ready[n] /\ toServer[n] = <<>>
               /\ \A j \in 1..Len(toPage[n]) : toPage[n][j] \in Handshake => i = j
      BY <1>1 DEF Conversation
    <3>4. QED BY <3>1, <3>2, <3>3
  <2>2. QED BY <1>1, <2>1 DEF Conversation
<1>5. ASSUME Note(n) PROVE SameRecords(n) /\ StreamGoesOn(n)
  <2>1. toPage[n][1] \notin Shown
    BY <1>1, <1>5, FrameTaken DEF Note, Handles, Shown, Final, Life!Final
  <2>2. QED BY <1>1, <2>1, FrameTaken DEF StreamGoesOn, Ended
<1>6. QED BY <1>2, <1>3, <1>4, <1>5, OneTalks
(* ------------------------------- the records ------------------------------ *)

\* A case that has been through s is not at an earlier status.
LEMMA ReachedIsLater ==
    ASSUME NEW s \in Shown, NEW t \in Shown
    PROVE  /\ Reached(t, t)
           /\ Reached(s, t) => Stage(s) <= Stage(t)
           /\ Stage(s) = 3 <=> s \in Final
           /\ Stage(s) \in 1..3
  BY DEF Shown, Final, Life!Final, Reached, Stage

\* Nothing that is shown is a note, nor a note a status.
LEMMA FrameKinds ==
    /\ Final \subseteq Shown /\ Shown \subseteq Frames
    /\ "done" \in Frames \ Shown /\ "case_not_found" \in Frames \ Shown
    /\ "none" \notin Shown /\ "dropped" \notin Shown /\ "nothing" \notin Shown
    /\ Handshake \cap (Shown \cup {"done", "case_not_found"}) = {}
    /\ "queued" \in Shown \ Final /\ "running" \in Shown \ Final /\ "succeeded" \in Final
  BY DEF Final, Life!Final, Shown, Frames, Handshake

\* What a stream pushes: the status the case is in, and what ends the stream.
Tells(n) ==
    /\ \A i \in 1..Len(toPage[n]) :
          i \in 1..Len(toPage'[n]) /\ toPage'[n][i] = toPage[n][i]
    /\ \A i \in 1..Len(toPage'[n]) \ 1..Len(toPage[n]) :
          \/ toPage'[n][i] = "case_not_found"
          \/ /\ i = Len(toPage[n]) + 1
             /\ toPage'[n][i] = status[n] /\ status[n] \in Shown
             /\ status[n] \in Final => stream'[n] = "over"
          \/ /\ toPage'[n][i] = "done"
             /\ i - 1 \in 1..Len(toPage'[n]) /\ toPage'[n][i - 1] \in Final

LEMMA EmitTells ==
    ASSUME PageInv, NEW n \in Connections, Emit(n)
    PROVE  /\ toPage'[n] \in Seq(Frames) /\ Tells(n)
           /\ ws[n] # "open" => toPage'[n] = toPage[n]
           /\ stream'[n] \in Pumping \cup {"over"}
<1>1. /\ toPage[n] \in Seq(Frames) /\ Len(toPage[n]) \in Nat
      /\ \A fs : Push(n, fs) =>
            toPage'[n] = IF ws[n] = "open" THEN toPage[n] \o fs ELSE toPage[n]
  <2>1. DOMAIN toPage = Connections /\ toPage[n] \in Seq(Frames)
    BY DEF PageInv, PageTypes
  <2>2. ASSUME NEW fs, Push(n, fs)
        PROVE  toPage'[n] = IF ws[n] = "open" THEN toPage[n] \o fs ELSE toPage[n]
    BY <2>1, <2>2 DEF Push
  <2>3. Len(toPage[n]) \in Nat
    BY <2>1
  <2>4. QED BY <2>1, <2>2, <2>3
<1>2. stream'[n] \in Pumping \cup {"over"}
  BY DEF Emit, PageInv, PageTypes, Pumping
<1>3. CASE ws[n] # "open"
  <2>1. toPage'[n] = toPage[n]
    BY <1>1, <1>3 DEF Emit
  <2>2. QED BY <1>1, <1>2, <2>1 DEF Tells
<1>4. CASE ws[n] = "open"
  <2>1. ASSUME NEW f \in Frames, toPage'[n] = toPage[n] \o <<f>>
        PROVE  /\ toPage'[n] \in Seq(Frames)
               /\ \A i \in 1..Len(toPage[n]) :
                     i \in 1..Len(toPage'[n]) /\ toPage'[n][i] = toPage[n][i]
               /\ \A i \in 1..Len(toPage'[n]) \ 1..Len(toPage[n]) :
                     i = Len(toPage[n]) + 1 /\ toPage'[n][i] = f
    <3>1. <<f>> \in Seq(Frames) /\ Len(<<f>>) = 1 /\ <<f>>[1] = f
      OBVIOUS
    <3>2. QED BY <1>1, <2>1, <3>1, JoinedUp
  <2>2. CASE status[n] = "dropped"
    <3>1. toPage'[n] = toPage[n] \o <<"case_not_found">>
      BY <1>1, <1>4, <2>2, FrameKinds DEF Emit, Final, Life!Final
    <3>2. QED BY <1>2, <1>4, <2>1, <3>1, FrameKinds DEF Tells
  <2>3. CASE status[n] \in {"queued", "running"}
    <3>1. toPage'[n] = toPage[n] \o <<status[n]>> /\ status[n] \in Shown \ Final
      BY <1>1, <1>4, <2>3, FrameKinds DEF Emit
    <3>2. QED BY <1>2, <1>4, <2>1, <3>1, FrameKinds DEF Tells
  <2>4. CASE status[n] \in Final
    <3>1. toPage'[n] = toPage[n] \o <<status[n], "done">> /\ stream'[n] = "over"
      BY <1>1, <1>4, <2>4, FrameKinds DEF Emit, PageInv, PageTypes
    <3>2. /\ toPage'[n] \in Seq(Frames) /\ Len(toPage'[n]) = Len(toPage[n]) + 2
          /\ \A i \in 1..Len(toPage[n]) : toPage'[n][i] = toPage[n][i]
          /\ toPage'[n][Len(toPage[n]) + 1] = status[n]
          /\ toPage'[n][Len(toPage[n]) + 2] = "done"
      BY <1>1, <2>4, <3>1, FrameKinds, TwoJoined
    <3>3. /\ \A i \in 1..Len(toPage[n]) : i \in 1..Len(toPage'[n])
          /\ \A i \in 1..Len(toPage'[n]) \ 1..Len(toPage[n]) :
                \/ i = Len(toPage[n]) + 1
                \/ i = Len(toPage[n]) + 2 /\ i - 1 = Len(toPage[n]) + 1
          /\ Len(toPage[n]) + 1 \in 1..Len(toPage'[n])
      BY <1>1, <3>2
    <3>4. \A i \in 1..Len(toPage'[n]) \ 1..Len(toPage[n]) :
          \/ /\ i = Len(toPage[n]) + 1
             /\ toPage'[n][i] = status[n] /\ status[n] \in Shown
             /\ status[n] \in Final => stream'[n] = "over"
          \/ /\ toPage'[n][i] = "done"
             /\ i - 1 \in 1..Len(toPage'[n]) /\ toPage'[n][i - 1] \in Final
      BY <2>4, <3>1, <3>2, <3>3, FrameKinds
    <3>5. QED BY <1>2, <1>4, <3>2, <3>3, <3>4 DEF Tells
  <2>5. QED BY <2>2, <2>3, <2>4 DEF Emit
<1>5. QED BY <1>3, <1>4

\* What a stream pushes follows what it pushed before.
LEMMA EmitMoves ==
    ASSUME PageInv, NEW n \in Connections, Emit(n)
    PROVE  TalkGoesOn /\ (\A m \in Connections : Told(m)') /\ OnPage'
<1>1. /\ Conversation(n) /\ ConnectionTypes(n) /\ Len(toPage[n]) \in Nat
      /\ stream[n] \in Pumping /\ "none" \notin Pumping /\ "stopped" \notin Pumping \cup {"over"}
      /\ stream[n] \notin Ended
      /\ ws'[n] = ws[n] /\ ready'[n] = ready[n] /\ queued'[n] = queued[n]
      /\ toServer'[n] = toServer[n] /\ session'[n] = session[n]
      /\ UNCHANGED <<status, socket, shown, report, notes>>
  BY DEF PageInv, PageTypes, ConnectionTypes, Emit, Pumping, Ended, page, client
<1>2. Domains /\ \A m \in Connections \ {n} : Untouched(m)
  BY DEF PageInv, PageTypes, Domains, Untouched, Emit, Push, page, client
<1>3. /\ toPage'[n] \in Seq(Frames) /\ Tells(n) /\ Len(toPage'[n]) \in Nat
      /\ ws[n] # "open" => toPage'[n] = toPage[n]
      /\ stream'[n] \in Pumping \cup {"over"}
  BY EmitTells
<1>4. ConnectionTypes(n)'
  BY <1>1, <1>3 DEF ConnectionTypes
<1>5. Conversation(n)'
  <2>1. /\ ready[n] /\ toServer[n] \in {<<>>, <<"disconnect">>} /\ queued[n] = <<>>
        /\ ws[n] \notin {"none", "connecting", "failing"} /\ session[n] # "gone"
        /\ \A i \in 1..Len(toPage[n]) : toPage[n][i] \notin Handshake
    BY <1>1 DEF Conversation
  <2>2. \A i \in 1..Len(toPage'[n]) : toPage'[n][i] \notin Handshake
    BY <1>3, <2>1, FrameKinds DEF Tells
  <2>3. QED BY <1>1, <1>3, <2>1, <2>2, RequestsApart DEF Conversation
<1>6. TalkGoesOn
  BY <1>2, <1>4, <1>5, OneTalks
<1>7. Told(n)'
  <2>1. ASSUME NEW i \in 1..Len(toPage'[n]), toPage'[n][i] \in Shown
        PROVE  /\ Reached(toPage'[n][i], status[n])
               /\ toPage'[n][i] \in Final => stream'[n] \in Ended
               /\ i \in 1..Len(toPage[n]) => toPage'[n][i] \notin Final
               /\ i \notin 1..Len(toPage[n]) =>
                     i = Len(toPage[n]) + 1 /\ toPage'[n][i] = status[n] /\ status[n] \in Shown
    <3>1. CASE i \in 1..Len(toPage[n])
      BY <1>1, <1>3, <2>1, <3>1 DEF PageInv, Told, Tells
    <3>2. CASE i \notin 1..Len(toPage[n])
      BY <1>3, <2>1, <3>2, FrameKinds, ReachedIsLater DEF Tells, Ended
    <3>3. QED BY <3>1, <3>2
  <2>2. ASSUME NEW i \in 1..Len(toPage'[n]), NEW j \in 1..Len(toPage'[n]), i < j,
               toPage'[n][i] \in Shown, toPage'[n][j] \in Shown
        PROVE  toPage'[n][i] \notin Final /\ Stage(toPage'[n][i]) <= Stage(toPage'[n][j])
    <3>1. CASE j \in 1..Len(toPage[n])
      <4>1. i \in 1..Len(toPage[n])
        BY <1>1, <2>2, <3>1
      <4>2. QED BY <1>3, <2>2, <3>1, <4>1 DEF PageInv, Told, Tells
    <3>2. CASE j \notin 1..Len(toPage[n])
      <4>1. j = Len(toPage[n]) + 1 /\ toPage'[n][j] = status[n] /\ status[n] \in Shown
        BY <2>1, <2>2, <3>2
      <4>2. i \in 1..Len(toPage[n])
        BY <1>1, <2>2, <4>1
      <4>3. QED BY <2>1, <2>2, <4>1, <4>2, ReachedIsLater
    <3>3. QED BY <3>1, <3>2
  <2>3. QED BY <1>1, <2>1, <2>2 DEF Told
<1>8. \A m \in Connections \ {n} : Told(m)'
  BY <1>1, <1>2 DEF PageInv, Told, Untouched
<1>9. OnPage'
  <2>1. CASE socket # n
    <3>1. socket # 0 => socket \in Connections \ {n}
      BY <2>1 DEF PageInv, PageTypes, Connections
    <3>2. QED BY <1>1, <1>2, <3>1 DEF PageInv, OnPage, Untouched
  <2>2. CASE socket = n
    <3>1. /\ socket # 0 /\ shown.status \in Shown \ Final /\ Reached(shown.status, status[n])
          /\ Stage(shown.status) \in 1..3
      BY <1>1, <2>2, ReachedIsLater DEF PageInv, PageTypes, OnPage, Connections
    <3>2. ASSUME NEW i \in 1..Len(toPage'[n]), toPage'[n][i] \in Shown
          PROVE  Stage(shown.status) <= Stage(toPage'[n][i])
      <4>1. CASE i \in 1..Len(toPage[n])
        BY <1>3, <2>2, <3>1, <3>2, <4>1 DEF PageInv, OnPage, Tells
      <4>2. CASE i \notin 1..Len(toPage[n])
        BY <1>3, <3>1, <3>2, <4>2, FrameKinds, ReachedIsLater DEF Tells
      <4>3. QED BY <4>1, <4>2
    <3>3. ASSUME NEW i \in 1..Len(toPage'[n]), toPage'[n][i] = "done"
          PROVE  \E j \in 1..Len(toPage'[n]) : j < i /\ toPage'[n][j] \in Final
      <4>1. CASE i \in 1..Len(toPage[n])
        <5>1. PICK j \in 1..Len(toPage[n]) : j < i /\ toPage[n][j] \in Final
          BY <1>3, <2>2, <3>1, <3>3, <4>1 DEF PageInv, OnPage, Tells
        <5>2. QED BY <1>3, <5>1 DEF Tells
      <4>2. CASE i \notin 1..Len(toPage[n])
        <5>1. i - 1 \in 1..Len(toPage'[n]) /\ toPage'[n][i - 1] \in Final
          BY <1>3, <3>3, <4>2, FrameKinds DEF Tells
        <5>2. i - 1 < i
          BY <1>3
        <5>3. QED BY <5>1, <5>2
      <4>3. QED BY <4>1, <4>2
    <3>4. QED BY <1>1, <2>2, <3>1, <3>2, <3>3 DEF PageInv, OnPage
  <2>3. QED BY <2>1, <2>2
<1>10. QED BY <1>6, <1>7, <1>8, <1>9
(* --------------------------------- the page ------------------------------- *)

LEMMA TypesGoOn ==
    ASSUME TalkGoesOn,
           status' \in [Connections -> {"none", "dropped"} \cup Shown],
           form' \in {"idle", "posting", "answered"},
           answer' \in 0..MaxSubmits, socket' \in 0..MaxSubmits, report' \in 0..MaxSubmits,
           shown' \in [case : 0..MaxSubmits, status : Shown \cup {"nothing"}],
           notes' \subseteq {"why", "done", "case_not_found", "connection"}
    PROVE  PageTypes'
<1>1. ASSUME NEW F, NEW T, F = [n \in Connections |-> F[n]],
             \A n \in Connections : F[n] \in T
      PROVE  F \in [Connections -> T]
  BY <1>1
<1>2. /\ ws' \in [Connections -> {"none", "connecting", "failing", "open", "closing", "closed"}]
      /\ ready' \in [Connections -> BOOLEAN]
      /\ queued' \in [Connections -> {<<>>, <<"subscribe">>}]
      /\ toServer' \in [Connections -> Requests]
      /\ toPage' \in [Connections -> Seq(Frames)]
  BY <1>1 DEF TalkGoesOn, Domains, ConnectionTypes
<1>3. /\ session' \in [Connections -> {"none", "open", "joined", "gone"}]
      /\ stream' \in [Connections -> Pumping \cup {"none", "over", "stopped"}]
  BY <1>1 DEF TalkGoesOn, Domains, ConnectionTypes
<1>4. QED BY <1>2, <1>3 DEF PageTypes

\* The page stays where it is, and opens nothing.
LEMMA OneAtATimeStays ==
    ASSUME PageInv, socket' = socket,
           \A n \in Connections : status'[n] = "none" <=> status[n] = "none",
           answer' = 0 \/ (answer' = answer /\ form' = form),
           \A n \in Connections :
              /\ ws[n] = "none" => ws'[n] = "none"
              /\ ws'[n] \in {"connecting", "open"} => ws[n] \in {"connecting", "open"}
    PROVE  OneAtATime'
<1>1. /\ answer # 0 => answer \in Connections
      /\ socket # 0 => socket \in Connections
  BY DEF PageInv, PageTypes, Connections
<1>2. \A m, n \in Connections : m < n /\ status'[n] # "none" => status'[m] # "none"
  BY DEF PageInv, OneAtATime
<1>3. answer' # 0 => form' = "answered" /\ status'[answer'] # "none" /\ socket' < answer'
  BY <1>1 DEF PageInv, OneAtATime
<1>4. \A n \in Connections : /\ n > socket' => ws'[n] = "none"
                             /\ n < socket' => ws'[n] \notin {"connecting", "open"}
  BY DEF PageInv, OneAtATime
<1>5. QED BY <1>1, <1>2, <1>3, <1>4 DEF PageInv, OneAtATime

\* A step that tells the page nothing of a case.
LEMMA QuietStep ==
    ASSUME PageInv, TalkGoesOn, RecordsStay, OneAtATime',
           \A n \in Connections : CaseGoesOn(n),
           status' \in [Connections -> {"none", "dropped"} \cup Shown],
           form' \in {"idle", "posting", "answered"}, answer' \in 0..MaxSubmits,
           UNCHANGED <<socket, shown, report>>,
           notes' \subseteq {"why", "done", "case_not_found", "connection"},
           "done" \in notes' => "done" \in notes \/ shown.status \in Final
    PROVE  PageInv'
<1>1. PageTypes'
  BY TypesGoOn DEF PageInv, PageTypes
<1>2. \A n \in Connections : Len(toPage'[n]) \in Nat
  BY <1>1 DEF PageTypes
<1>3. \A n \in Connections : Told(n)'
  BY <1>2, ToldStays DEF PageInv, RecordsStay
<1>4. OnPage'
  BY <1>2, OnPageStays DEF PageInv, RecordsStay
<1>5. QED BY <1>1, <1>3, <1>4 DEF PageInv, TalkGoesOn

\* Nothing on any connection.
LEMMA AllUntouched ==
    ASSUME PageInv, UNCHANGED <<client, wire, service>>
    PROVE  TalkGoesOn /\ RecordsStay
<1>1. Domains /\ \A n \in Connections : Untouched(n)
  BY DEF PageInv, PageTypes, Domains, Untouched, client, wire, service
<1>2. \A n \in Connections : ConnectionTypes(n)' /\ Conversation(n)'
  BY <1>1, UntouchedTalks DEF PageInv, PageTypes, ConnectionTypes, Untouched
<1>3. \A n \in Connections : SameRecords(n) /\ StreamGoesOn(n)
  BY <1>1, SameToPage DEF PageInv, Untouched, StreamGoesOn
<1>4. QED BY <1>1, <1>2, <1>3 DEF TalkGoesOn, RecordsStay

\* What moves the form or a case, and no connection.
LEMMA FormStep ==
    ASSUME PageInv, \/ Submit \/ PostFails \/ ShowRefusal \/ Refuse \/ Proceed
                    \/ \E n \in Connections : Accept(n)
    PROVE  PageInv'
<1>1. UNCHANGED <<page, client, wire, service>>
  BY DEF Submit, PostFails, ShowRefusal, Refuse, Proceed, Accept
<1>2. TalkGoesOn /\ RecordsStay
  BY <1>1, AllUntouched
<1>3. UNCHANGED <<socket, shown, report, notes, ws>>
  BY <1>1 DEF page, client
<1>4. CASE Submit \/ PostFails \/ ShowRefusal \/ Refuse
  <2>1. /\ status' = status /\ form' \in {"idle", "posting", "answered"}
        /\ answer' = 0 \/ (answer' = answer /\ form' = form)
    <3>1. CASE Submit
      <4>1. answer = 0
        BY <3>1 DEF Submit, PageInv, OneAtATime
      <4>2. QED BY <3>1, <4>1 DEF Submit
    <3>2. CASE ShowRefusal
      BY <3>2 DEF ShowRefusal
    <3>3. QED BY <1>4, <3>1, <3>2 DEF PostFails, Refuse
  <2>2. OneAtATime'
    BY <1>3, <2>1, OneAtATimeStays
  <2>3. \A n \in Connections : CaseGoesOn(n)
    BY <2>1 DEF CaseGoesOn
  <2>4. answer' \in 0..MaxSubmits
    BY <2>1, PageAssumption DEF PageInv, PageTypes
  <2>5. QED BY <1>2, <1>3, <2>1, <2>2, <2>3, <2>4, QuietStep DEF PageInv, PageTypes
<1>5. CASE Proceed
  <2>1. form' = form /\ answer' = answer
    BY <1>5 DEF Proceed, form_
  <2>2. /\ status' \in [Connections -> {"none", "dropped"} \cup Shown]
        /\ \A n \in Connections : CaseGoesOn(n) /\ (status'[n] = "none" <=> status[n] = "none")
    BY <1>5, ProceedMoves DEF PageInv
  <2>3. OneAtATime'
    BY <1>3, <2>1, <2>2, OneAtATimeStays
  <2>4. QED BY <1>2, <1>3, <2>1, <2>2, <2>3, QuietStep DEF PageInv, PageTypes
<1>6. CASE \E n \in Connections : Accept(n)
  <2>1. PICK n \in Connections : Accept(n)
    BY <1>6
  <2>2. form' = "answered" /\ answer' \in 0..MaxSubmits
    BY <2>1 DEF Accept, Connections
  <2>3. QED BY <1>2, <1>3, <2>1, <2>2, AcceptMoves, QuietStep DEF PageInv, PageTypes
<1>7. QED BY <1>4, <1>5, <1>6

\* What moves a connection and shows no record.
LEMMA ConnectionStep ==
    ASSUME PageInv, NEW n \in Connections,
           \/ Open(n) \/ FailToOpen(n) \/ Break(n) \/ CloseEnds(n) \/ Notice(n)
           \/ Receive(n) \/ Dismiss(n) \/ Greet(n) \/ Join(n) \/ HungUpOn(n) \/ Note(n)
    PROVE  PageInv'
<1>1. TalkGoesOn /\ RecordsStay
  BY OpeningTalks, ServiceTalks, HandshakeTalks, RenderTalks
<1>2. UNCHANGED <<status, form, answer, socket, shown, report>>
  BY DEF Open, FailToOpen, Break, CloseEnds, Notice, Receive, Dismiss, Greet, Join,
         HungUpOn, Note, page, form_
<1>3. \/ notes' = notes \/ notes' = notes \cup {"connection"}
      \/ Note(n) /\ \E what \in {"done", "case_not_found"} : notes' = notes \cup {what}
  <2>1. CASE FailToOpen(n)
    BY <2>1 DEF FailToOpen
  <2>2. CASE Break(n)
    BY <2>2 DEF Break
  <2>3. CASE Note(n)
    BY <2>3 DEF Note
  <2>4. CASE ~FailToOpen(n) /\ ~Break(n) /\ ~Note(n)
    BY <2>4 DEF Open, CloseEnds, Notice, Receive, Dismiss, Greet, Join, HungUpOn, page
  <2>5. QED BY <2>1, <2>2, <2>3, <2>4
<1>4. \A m \in Connections :
              /\ ws[m] = "none" => ws'[m] = "none"
              /\ ws'[m] \in {"connecting", "open"} => ws[m] \in {"connecting", "open"}
  BY DEF Open, FailToOpen, Break, CloseEnds, Notice, Receive, Dismiss, Greet, Join,
         HungUpOn, Note, Handles, client, PageInv, PageTypes
<1>5. OneAtATime'
  BY <1>2, <1>4, OneAtATimeStays
<1>6. "done" \in notes' => "done" \in notes \/ shown.status \in Final
  <2>1. CASE Note(n)
    <3>1. socket = n
      <4>1. n > socket \/ n < socket \/ n = socket
        BY DEF PageInv, PageTypes, Connections
      <4>2. QED BY <2>1, <4>1 DEF Note, Handles, PageInv, OneAtATime
    <3>2. ws[n] = "open" /\ toPage[n] # <<>> /\ Taken(n)
      BY <2>1 DEF Note, Handles
    <3>3. toPage[n][1] = "done" => shown.status \in Final
      <4>1. 1 \in 1..Len(toPage[n]) /\ ~(\E j \in 1..Len(toPage[n]) : j < 1)
        BY <3>2, FrameTaken
      <4>2. socket # 0
        BY <3>1 DEF Connections
      <4>3. QED BY <3>1, <4>1, <4>2 DEF PageInv, OnPage
    <3>4. Head(toPage[n]) = toPage[n][1]
      BY <3>2, FrameTaken
    <3>5. QED BY <2>1, <3>3, <3>4 DEF Note, Handles
  <2>2. CASE ~Note(n)
    BY <1>3, <2>2
  <2>3. QED BY <2>1, <2>2
<1>7. \A m \in Connections : CaseGoesOn(m)
  BY <1>2 DEF CaseGoesOn
<1>8. QED BY <1>1, <1>2, <1>3, <1>5, <1>6, <1>7, QuietStep DEF PageInv, PageTypes

\* A stream pushes what there is to tell.
LEMMA EmitStep ==
    ASSUME PageInv, NEW n \in Connections, Emit(n)
    PROVE  PageInv'
<1>1. UNCHANGED <<status, form, answer, socket, shown, report, notes, ws>>
  BY DEF Emit, form_, page, client
<1>2. TalkGoesOn /\ (\A m \in Connections : Told(m)') /\ OnPage'
  BY EmitMoves
<1>3. PageTypes'
  BY <1>1, <1>2, TypesGoOn DEF PageInv, PageTypes
<1>4. OneAtATime'
  BY <1>1, OneAtATimeStays
<1>5. QED BY <1>2, <1>3, <1>4 DEF PageInv, TalkGoesOn
\* Only the page's own connection delivers, and what it shows is later.
LEMMA ShowsNext ==
    ASSUME PageInv, NEW n \in Connections, Show(n)
    PROVE  /\ socket = n /\ n # 0 /\ shown.case = n
           /\ toPage[n][1] \in Shown /\ shown' = [case |-> n, status |-> toPage[n][1]]
           /\ shown.status \in Shown \ Final /\ Stage(shown.status) <= Stage(toPage[n][1])
           /\ report' = (IF toPage[n][1] = "succeeded" THEN n ELSE report)
           /\ report = 0 /\ notes' \subseteq {"why"} /\ Taken(n)
           /\ ws[n] = "open" /\ toPage[n] # <<>>
<1>1. ws[n] = "open" /\ toPage[n] # <<>> /\ Taken(n)
  BY DEF Show, Handles
<1>2. socket = n /\ n # 0
  <2>1. n > socket \/ n < socket \/ n = socket
    BY DEF PageInv, PageTypes, Connections
  <2>2. QED BY <1>1, <2>1 DEF PageInv, OneAtATime, Connections
<1>3. Head(toPage[n]) = toPage[n][1] /\ 1 \in 1..Len(toPage[n])
  BY <1>1, FrameTaken
<1>4. PICK s \in Shown : /\ Handles(n, s) /\ Render(n, s)
                         /\ report' = IF s = "succeeded" THEN n ELSE report
  BY DEF Show
<1>5. /\ s = toPage[n][1] /\ shown' = [case |-> n, status |-> s]
      /\ notes' \subseteq {"why"}
  BY <1>3, <1>4 DEF Handles, Render
<1>6. shown.status \in Shown \ Final /\ Stage(shown.status) <= Stage(toPage[n][1])
  BY <1>2, <1>3, <1>5 DEF PageInv, OnPage, PageTypes
<1>7. report = 0 /\ shown.case = n
  BY <1>2, <1>6, FrameKinds DEF PageInv, OnPage
<1>8. QED BY <1>1, <1>2, <1>4, <1>5, <1>6, <1>7

LEMMA ShowStep ==
    ASSUME PageInv, NEW n \in Connections, Show(n)
    PROVE  PageInv'
<1> DEFINE s == toPage[n][1]
<1>1. UNCHANGED <<status, form, answer, socket, ws, stream>>
  BY DEF Show, form_, client, service
<1>2. /\ socket = n /\ n # 0 /\ s \in Shown /\ shown' = [case |-> n, status |-> s]
      /\ shown.status \notin Final
      /\ report' = (IF s = "succeeded" THEN n ELSE report)
      /\ report = 0 /\ notes' \subseteq {"why"} /\ Taken(n)
      /\ ws[n] = "open" /\ toPage[n] # <<>>
  BY ShowsNext
<1>3. TalkGoesOn
  BY RenderTalks
<1>4. /\ 1 \in 1..Len(toPage[n]) /\ Len(toPage'[n]) = Len(toPage[n]) - 1
      /\ Len(toPage[n]) \in Nat
      /\ \A i \in 1..Len(toPage'[n]) :
            /\ i + 1 \in 1..Len(toPage[n]) /\ 1 < i + 1
            /\ toPage'[n][i] = toPage[n][i + 1]
  <2>1. /\ 1 \in 1..Len(toPage[n]) /\ Len(toPage'[n]) = Len(toPage[n]) - 1
        /\ Len(toPage[n]) \in Nat
        /\ \A i \in 1..Len(toPage'[n]) :
              i + 1 \in 1..Len(toPage[n]) /\ toPage'[n][i] = toPage[n][i + 1]
    BY <1>2, FrameTaken
  <2>2. QED BY <2>1
<1>5. PageTypes'
  <2>1. shown' \in [case : 0..MaxSubmits, status : Shown \cup {"nothing"}]
    BY <1>2 DEF PageInv, PageTypes
  <2>2. report' \in 0..MaxSubmits
    BY <1>2 DEF PageInv, PageTypes
  <2>3. QED BY <1>1, <1>2, <1>3, <2>1, <2>2, TypesGoOn DEF PageInv, PageTypes
<1>6. OneAtATime'
  BY <1>1, OneAtATimeStays
<1>7. Told(n)'
  <2>1. Told(n)
    BY DEF PageInv
  <2>2. ASSUME NEW i \in 1..Len(toPage'[n]), toPage'[n][i] \in Shown
        PROVE  /\ Reached(toPage'[n][i], status'[n])
               /\ toPage'[n][i] \in Final => stream'[n] \in Ended
               /\ \A j \in 1..Len(toPage'[n]) :
                     i < j /\ toPage'[n][j] \in Shown =>
                       toPage'[n][i] \notin Final /\ Stage(toPage'[n][i]) <= Stage(toPage'[n][j])
    <3>1. \A j \in 1..Len(toPage'[n]) : i < j => i + 1 < j + 1
      BY <1>4
    <3>2. QED BY <1>1, <1>4, <2>1, <2>2, <3>1 DEF Told
  <2>3. QED BY <2>2 DEF Told
<1>8. \A m \in Connections \ {n} : Told(m)'
  <2>1. \A m \in Connections \ {n} : toPage'[m] = toPage[m]
    BY <1>2 DEF Taken, PageInv, PageTypes
  <2>2. QED BY <1>1, <2>1 DEF PageInv, Told
<1>9. OnPage'
  <2>1. /\ Reached(s, status[n])
        /\ s \in Final => stream[n] \in Ended
        /\ \A j \in 1..Len(toPage[n]) :
              1 < j /\ toPage[n][j] \in Shown => s \notin Final /\ Stage(s) <= Stage(toPage[n][j])
    BY <1>2, <1>4 DEF PageInv, Told
  <2>2. shown'.case = n /\ shown'.status = s /\ s # "nothing"
    BY <1>2, FrameKinds
  <2>3. ASSUME NEW i \in 1..Len(toPage'[n])
        PROVE  /\ toPage'[n][i] \in Shown => s \notin Final /\ Stage(s) <= Stage(toPage'[n][i])
               /\ toPage'[n][i] = "done" =>
                     \/ s \in Final
                     \/ \E j \in 1..Len(toPage'[n]) : j < i /\ toPage'[n][j] \in Final
    <3>1. toPage'[n][i] \in Shown => s \notin Final /\ Stage(s) <= Stage(toPage'[n][i])
      BY <1>4, <2>1
    <3>2. ASSUME toPage'[n][i] = "done", s \notin Final
          PROVE  \E j \in 1..Len(toPage'[n]) : j < i /\ toPage'[n][j] \in Final
      <4>1. PICK k \in 1..Len(toPage[n]) : k < i + 1 /\ toPage[n][k] \in Final
        BY <1>2, <1>4, <3>2 DEF PageInv, OnPage
      <4>2. k # 1
        BY <3>2, <4>1
      <4>3. k - 1 \in 1..Len(toPage'[n]) /\ k - 1 < i /\ (k - 1) + 1 = k
        BY <1>4, <4>1, <4>2
      <4>4. toPage'[n][k - 1] = toPage[n][k]
        BY <1>4, <4>3
      <4>5. QED BY <4>1, <4>3, <4>4
    <3>3. QED BY <3>1, <3>2
  <2>4. /\ "done" \notin notes'
        /\ report' # 0 => report' = n /\ s = "succeeded"
    BY <1>2
  <2>5. /\ Reached(shown'.status, status'[n])
        /\ shown'.status \in Final => stream'[n] \in Ended
        /\ shown'.status = "nothing" <=> socket' = 0
        /\ socket' = n /\ shown'.case = socket'
    <3>1. socket' = n /\ n # 0 /\ status' = status /\ stream' = stream
      BY <1>1, <1>2
    <3>2. QED BY <2>1, <2>2, <3>1
  <2>6. \A i \in 1..Len(toPage'[socket']) :
                /\ toPage'[socket'][i] \in Shown =>
                      /\ shown'.status \notin Final
                      /\ Stage(shown'.status) <= Stage(toPage'[socket'][i])
                /\ toPage'[socket'][i] = "done" =>
                      \/ shown'.status \in Final
                      \/ \E j \in 1..Len(toPage'[socket']) :
                            j < i /\ toPage'[socket'][j] \in Final
    BY <2>2, <2>3, <2>5
  <2>7. QED BY <2>2, <2>4, <2>5, <2>6 DEF OnPage
<1>10. QED BY <1>3, <1>5, <1>6, <1>7, <1>8, <1>9 DEF PageInv, TalkGoesOn

\* The page moves to a later case; the connection it had is on its way out.
LEMMA WatchStep ==
    ASSUME PageInv, NEW n \in Connections, Watch(n)
    PROVE  PageInv' /\ shown' = [case |-> n, status |-> "queued"] /\ shown.case < n
<1>1. /\ answer = n /\ answer' = 0 /\ form' = "idle" /\ socket' = n /\ report' = 0
      /\ shown' = [case |-> n, status |-> "queued"] /\ notes' = {}
      /\ UNCHANGED <<status, ready, session, stream>>
      /\ queued' = [queued EXCEPT ![n] = Append(@, "subscribe")]
      /\ ws' = [m \in Connections |-> CASE m = n -> "connecting"
                                        [] m = socket -> AfterClose(m)
                                        [] OTHER -> ws[m]]
      /\ IF socket = 0 THEN UNCHANGED wire ELSE Close(socket)
  BY DEF Watch, Render, HoldBack, service
<1>2. /\ n # 0 /\ socket < n /\ status[n] # "none" /\ n \in 0..MaxSubmits
      /\ socket \in Nat /\ (socket # 0 => socket \in Connections) /\ socket # n
  BY <1>1 DEF PageInv, PageTypes, OneAtATime, Connections
<1>3. \A m \in Connections : Conversation(m) /\ ConnectionTypes(m)
  BY DEF PageInv, PageTypes, ConnectionTypes
<1>4. /\ ws[n] = "none" /\ toServer[n] = <<>> /\ session[n] = "none" /\ stream[n] = "none"
      /\ ~ready[n] /\ queued[n] = <<>> /\ toPage[n] = <<>>
  <2>1. ws[n] = "none"
    BY <1>2 DEF PageInv, OneAtATime
  <2>2. QED BY <1>3, <2>1 DEF Conversation
<1>5. Domains
  <2>1. /\ toServer' = [m \in Connections |-> toServer'[m]]
        /\ toPage' = [m \in Connections |-> toPage'[m]]
    <3>1. CASE socket = 0
      BY <1>1, <3>1 DEF PageInv, PageTypes, wire
    <3>2. CASE socket # 0
      BY <1>1, <3>2 DEF PageInv, PageTypes, Close
    <3>3. QED BY <3>1, <3>2
  <2>2. /\ ready' = [m \in Connections |-> ready'[m]]
        /\ queued' = [m \in Connections |-> queued'[m]]
        /\ session' = [m \in Connections |-> session'[m]]
        /\ stream' = [m \in Connections |-> stream'[m]]
    BY <1>1 DEF PageInv, PageTypes
  <2>3. ws' = [m \in Connections |-> ws'[m]]
    BY <1>1
  <2>4. QED BY <2>1, <2>2, <2>3 DEF Domains
<1>6. ws'[n] = "connecting" /\ queued'[n] = <<"subscribe">>
      /\ toServer'[n] = <<>> /\ toPage'[n] = <<>>
  <2>1. toServer'[n] = toServer[n] /\ toPage'[n] = toPage[n]
    BY <1>1, <1>2 DEF Close, wire, PageInv, PageTypes
  <2>2. ws'[n] = "connecting"
    BY <1>1, <1>2
  <2>3. queued'[n] = Append(queued[n], "subscribe")
    BY <1>1 DEF PageInv, PageTypes
  <2>4. QED BY <1>4, <2>1, <2>2, <2>3, RequestMade
<1>7. ConnectionTypes(n)' /\ Conversation(n)'
  <2>1. ConnectionTypes(n)'
    BY <1>1, <1>3, <1>4, <1>6 DEF ConnectionTypes
  <2>2. Conversation(n)'
    <3>1. Len(<<>>) = 0 /\ "none" \notin Pumping \cup {"over"}
      BY DEF Pumping
    <3>2. QED BY <1>1, <1>4, <1>6, <3>1, RequestsApart DEF Conversation
  <2>3. QED BY <2>1, <2>2
<1>8. \A m \in Connections \ {n, socket} : Untouched(m)
  BY <1>1 DEF Untouched, Close, wire, PageInv, PageTypes
<1>9. ASSUME NEW m \in Connections, m = socket
      PROVE  /\ ConnectionTypes(m)' /\ Conversation(m)'
             /\ toPage'[m] = <<>> /\ ws'[m] \notin {"connecting", "open"}
  <2>1. /\ m # 0 /\ m # n /\ Conversation(m) /\ ConnectionTypes(m)
        /\ toPage'[m] = <<>> /\ ws'[m] = AfterClose(m) /\ queued'[m] = queued[m]
        /\ ready'[m] = ready[m] /\ session'[m] = session[m] /\ stream'[m] = stream[m]
        /\ toServer'[m] = IF ws[m] = "open" THEN Append(toServer[m], "disconnect")
                                            ELSE toServer[m]
    <3>1. m # 0 /\ m # n /\ Conversation(m) /\ ConnectionTypes(m) /\ Close(m)
      BY <1>1, <1>2, <1>3, <1>9 DEF Connections
    <3>2. QED BY <1>1, <1>9, <3>1 DEF Close, PageInv, PageTypes
  <2>2. CASE ws[m] = "open"
    <3>1. /\ ws'[m] = "closing" /\ toServer[m] \in {<<>>, <<"connect">>, <<"subscribe">>}
          /\ toServer'[m] = Append(toServer[m], "disconnect")
      BY <2>1, <2>2 DEF AfterClose, Conversation
    <3>2. /\ toServer'[m] \in Requests
          /\ toServer'[m] \in Asking => toServer[m] \in Asking
          /\ toServer'[m] \in Subscribing => toServer[m] \in Subscribing
          /\ toServer[m] = <<>> => toServer'[m] = <<"disconnect">>
          /\ toServer[m] # <<"disconnect">>
      BY <3>1, RequestMade, RequestsApart DEF Requests, Asking, Subscribing
    <3>3. ConnectionTypes(m)'
      BY <2>1, <3>1, <3>2 DEF ConnectionTypes
    <3>4. Conversation(m)'
      <4>1. Len(<<>>) = 0
        OBVIOUS
      <4>2. QED BY <2>1, <2>2, <3>1, <3>2, <4>1 DEF Conversation
    <3>5. QED BY <2>1, <3>1, <3>3, <3>4
  <2>3. CASE ws[m] # "open"
    <3>1. /\ ws'[m] = (IF ws[m] = "connecting" THEN "failing" ELSE ws[m])
          /\ toServer'[m] = toServer[m] /\ toPage[m] = <<>>
      BY <2>1, <2>3 DEF AfterClose, Conversation
    <3>2. ConnectionTypes(m)'
      BY <2>1, <3>1 DEF ConnectionTypes
    <3>3. Conversation(m)'
      <4>1. CASE ws[m] = "connecting"
        BY <2>1, <3>1, <4>1 DEF Conversation
      <4>2. CASE ws[m] # "connecting"
        BY <2>1, <3>1, <4>2, UntouchedTalks DEF Untouched
      <4>3. QED BY <4>1, <4>2
    <3>4. QED BY <2>1, <2>3, <3>1, <3>2, <3>3
  <2>4. QED BY <2>2, <2>3
<1>10. TalkGoesOn
  <2>1. \A m \in Connections \ {n, socket} : ConnectionTypes(m)' /\ Conversation(m)'
    BY <1>3, <1>8, UntouchedTalks DEF ConnectionTypes, Untouched
  <2>2. QED BY <1>2, <1>5, <1>7, <1>9, <2>1 DEF TalkGoesOn
<1>11. PageTypes'
  <2>1. shown' \in [case : 0..MaxSubmits, status : Shown \cup {"nothing"}]
    BY <1>1, <1>2, FrameKinds
  <2>2. answer' \in 0..MaxSubmits /\ socket' \in 0..MaxSubmits /\ report' \in 0..MaxSubmits
    BY <1>1, <1>2, PageAssumption
  <2>3. QED BY <1>1, <1>10, <2>1, <2>2, TypesGoOn DEF PageInv, PageTypes
<1>12. OneAtATime'
  <2>1. ASSUME NEW m \in Connections
        PROVE  /\ m > n => ws'[m] = "none"
               /\ m < n => ws'[m] \notin {"connecting", "open"}
    <3>1. m > n => m > socket /\ m # socket /\ m # n
      BY <1>2 DEF Connections
    <3>2. m > n => ws'[m] = "none"
      BY <1>8, <3>1 DEF PageInv, OneAtATime, Untouched
    <3>3. CASE m < n /\ m = socket
      BY <1>2, <1>9, <3>3 DEF Connections
    <3>4. CASE m < n /\ m # socket
      <4>1. (m > socket \/ m < socket) /\ m # n
        BY <1>2, <3>4 DEF Connections
      <4>2. QED BY <1>8, <3>4, <4>1 DEF PageInv, OneAtATime, Untouched, Connections
    <3>5. QED BY <3>2, <3>3, <3>4
  <2>2. QED BY <1>1, <1>2, <2>1 DEF PageInv, OneAtATime
<1>13. \A m \in Connections : Told(m)'
  <2>1. \A m \in Connections : toPage'[m] = <<>> \/ toPage'[m] = toPage[m]
    BY <1>2, <1>6, <1>8, <1>9 DEF Untouched
  <2>2. QED BY <1>1, <2>1 DEF PageInv, Told
<1>14. OnPage'
  <2>1. shown'.case = n /\ shown'.status = "queued" /\ "queued" \notin Final
    BY <1>1, FrameKinds
  <2>2. Reached("queued", status[n])
    BY <1>2, <2>1 DEF Reached
  <2>3. 1..Len(toPage'[n]) = {}
    BY <1>6
  <2>4. QED BY <1>1, <1>2, <2>1, <2>2, <2>3 DEF OnPage
<1>15. shown.case < n
  BY <1>2 DEF PageInv, OnPage
<1>16. QED BY <1>1, <1>10, <1>11, <1>12, <1>13, <1>14, <1>15 DEF PageInv, TalkGoesOn
(* -------------------------------- theorems -------------------------------- *)

LEMMA PageInit == Init => PageInv
<1> SUFFICES ASSUME Init PROVE PageInv
  OBVIOUS
<1>1. PageTypes
  BY PageAssumption DEF Init, PageTypes, Requests, Pumping, Shown
<1>2. OneAtATime
  BY DEF Init, OneAtATime, Connections
<1>3. OnPage
  BY FrameKinds DEF Init, OnPage
<1>4. \A n \in Connections : Conversation(n) /\ Told(n)
  <2>1. Len(<<>>) = 0 /\ "none" \notin Pumping \cup {"over", "stopped"}
    BY DEF Pumping
  <2>2. QED BY <2>1, RequestsApart DEF Init, Conversation, Told
<1>5. QED BY <1>1, <1>2, <1>3, <1>4 DEF PageInv

\* A record shown is never followed by that of an earlier case or status.
Onwards ==
    \/ shown'.case > shown.case
    \/ /\ shown'.case = shown.case
       /\ Stage(shown.status) <= Stage(shown'.status)
       /\ Stage(shown.status) = 3 => shown' = shown

LEMMA SameShown ==
    ASSUME PageInv, shown' = shown
    PROVE  Onwards
<1>1. Stage(shown.status) \in Nat
  BY DEF Stage
<1>2. QED BY <1>1 DEF Onwards

LEMMA PageStep ==
    ASSUME PageInv, [Next]_vars
    PROVE  PageInv' /\ Onwards
<1>1. CASE UNCHANGED vars
  <2>1. UNCHANGED <<status, form, answer, page, client, wire, service>>
    BY <1>1 DEF vars, form_
  <2>2. UNCHANGED <<socket, shown, report, notes, ws>>
    BY <2>1 DEF page, client
  <2>3. OneAtATime'
    BY <2>1, <2>2, OneAtATimeStays
  <2>4. \A n \in Connections : CaseGoesOn(n)
    BY <2>1 DEF CaseGoesOn
  <2>5. PageInv'
    BY <2>1, <2>2, <2>3, <2>4, AllUntouched, QuietStep DEF PageInv, PageTypes
  <2>6. QED BY <2>2, <2>5, SameShown
<1>2. CASE \/ Submit \/ PostFails \/ ShowRefusal \/ Refuse \/ Proceed
           \/ \E n \in Connections : Accept(n)
  <2>1. shown' = shown
    BY <1>2 DEF Submit, PostFails, ShowRefusal, Refuse, Proceed, Accept, page
  <2>2. QED BY <1>2, <2>1, FormStep, SameShown
<1>3. ASSUME NEW n \in Connections,
             \/ Open(n) \/ FailToOpen(n) \/ Break(n) \/ CloseEnds(n) \/ Notice(n)
             \/ Receive(n) \/ Dismiss(n) \/ Greet(n) \/ Join(n) \/ HungUpOn(n) \/ Note(n)
      PROVE  PageInv' /\ Onwards
  <2>1. shown' = shown
    BY <1>3 DEF Open, FailToOpen, Break, CloseEnds, Notice, Receive, Dismiss, Greet, Join,
       HungUpOn, Note, page
  <2>2. QED BY <1>3, <2>1, ConnectionStep, SameShown
<1>4. ASSUME NEW n \in Connections, Emit(n) PROVE PageInv' /\ Onwards
  <2>1. shown' = shown
    BY <1>4 DEF Emit, page
  <2>2. QED BY <1>4, <2>1, EmitStep, SameShown
<1>5. ASSUME NEW n \in Connections, Show(n) PROVE PageInv' /\ Onwards
  <2>1. /\ shown.case = n /\ shown'.case = n /\ shown'.status = toPage[n][1]
        /\ shown.status \in Shown \ Final /\ Stage(shown.status) <= Stage(toPage[n][1])
    BY <1>5, ShowsNext
  <2>2. Stage(shown.status) # 3
    BY <2>1, ReachedIsLater
  <2>3. QED BY <1>5, <2>1, <2>2, ShowStep DEF Onwards
<1>6. ASSUME NEW n \in Connections, Watch(n) PROVE PageInv' /\ Onwards
  <2>1. PageInv' /\ shown'.case = n /\ shown.case < n
    BY <1>6, WatchStep
  <2>2. QED BY <2>1 DEF Onwards, Connections, PageInv, PageTypes
<1>7. QED BY <1>1, <1>2, <1>3, <1>4, <1>5, <1>6 DEF Next, Deliver

\* What a page shows follows from what is on its way to it: the inductive
\* invariant holds in every state of CasePage.
THEOREM PageInvariant == Spec => []PageInv
<1>1. PageInv /\ [Next]_vars => PageInv'
  BY PageStep
<1>2. QED BY PageInit, <1>1, PTL DEF Spec

\* The types of the page's state, and that a frame is held back only until the
\* namespace is joined (app.js, socketio.js).
THEOREM PageTypesHold == Spec => []PageTypeOK
<1>1. PageInv => PageTypeOK
  <2> SUFFICES ASSUME PageInv PROVE PageTypeOK
    OBVIOUS
  <2>1. \A n \in Connections : Len(toServer[n]) <= 2 /\ (ready[n] => queued[n] = <<>>)
    <3>1. \A q \in Requests : Len(q) <= 2
      <4>1. /\ Len(<<>>) = 0 /\ \A a : Len(<<a>>) = 1
            /\ \A a, b : Len(<<a, b>>) = 2
        OBVIOUS
      <4>2. ASSUME NEW q \in Requests
            PROVE  \/ q = <<>> \/ (\E a : q = <<a>>) \/ \E a, b : q = <<a, b>>
        BY <4>2 DEF Requests, Asking, Subscribing
      <4>3. ASSUME NEW q \in Requests PROVE Len(q) \in {0, 1, 2}
        BY <4>1, <4>2
      <4>4. \A k \in {0, 1, 2} : k <= 2
        OBVIOUS
      <4>5. QED BY <4>3, <4>4
    <3>2. QED BY <3>1 DEF PageInv, PageTypes, Conversation
  <2>2. QED BY <2>1 DEF PageInv, PageTypes, PageTypeOK
<1>2. QED BY PageInvariant, <1>1, PTL

\* For any number of submissions: the record on the page is that of the case it
\* watches, a final status the one the case ended with, and the note and the
\* report under it are its own (app.js, render and watch).
THEOREM PageIsCoherent == Spec => []PageCoherent
<1>1. PageInv => PageCoherent
  <2> SUFFICES ASSUME PageInv PROVE PageCoherent
    OBVIOUS
  <2>1. shown.status \in Final => status[socket] \in {shown.status, "dropped"}
    BY FrameKinds DEF PageInv, OnPage, Reached
  <2>2. QED BY <2>1 DEF PageInv, OnPage, PageCoherent
<1>2. QED BY PageInvariant, <1>1, PTL

\* For any number of submissions: the page never goes back to an earlier
\* submission, an earlier status or another ending (app.js, render and watch;
\* socketio.js, close).
THEOREM PageMovesForward == Spec => ShownMovesForward
<1>1. PageInv /\ [Next]_vars =>
         [\/ shown'.case > shown.case
          \/ /\ shown'.case = shown.case
             /\ Stage(shown.status) <= Stage(shown'.status)
             /\ Stage(shown.status) = 3 => shown' = shown]_vars
  BY PageStep DEF Onwards
<1>2. QED BY PageInvariant, <1>1, PTL DEF Spec, ShownMovesForward
=============================================================================
