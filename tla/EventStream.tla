------------------------------ MODULE EventStream ------------------------------
(***************************************************************************)
(* readSse of the web interface: the text of an event stream arrives in    *)
(* pieces of any length, and is taken apart into lines and events while it *)
(* does. A character stands for the whole text of a line: data with a log, *)
(* with a result, or with something that is no event, or another field.    *)
(***************************************************************************)
EXTENDS Naturals, Sequences, FiniteSets

CONSTANTS
    MaxLength,  \* bound on the length of the text
    Limit       \* MAX_EVENT_BUFFER

StreamAssumption == MaxLength \in Nat /\ Limit \in Nat \ {0}

Data == {"log", "succeeded", "failed", "bad"}
Lines == Data \cup {"field"}
Ends == {"CR", "LF"}

\* What a server may send: two contents never touch.
Texts ==
    {s \in UNION {[1 .. n -> Lines \cup Ends] : n \in 0 .. MaxLength} :
        \A i \in 1 .. Len(s) - 1 : s[i] \in Lines => s[i + 1] \in Ends}

VARIABLES
    text,     \* what the server sends before it closes
    got,      \* how much of it has arrived
    closed,   \* whether the end was read
    buffer,   \* text that is not taken apart yet
    data,     \* data lines of the present event
    size,     \* eventSize
    events,   \* events that were handed on
    outcome,  \* what is answered, "none" before
    phase     \* "read" awaits the next piece, "lines" takes one apart

vars == <<text, got, closed, buffer, data, size, events, outcome, phase>>

Outcomes == {"none", "success", "failed", "interrupted", "cancelled"}

TypeOK ==
    /\ text \in Seq(Lines \cup Ends) /\ got \in 0 .. Len(text) /\ closed \in BOOLEAN
    /\ buffer \in Seq(Lines \cup Ends) /\ \A i \in 1 .. Len(data) : data[i] \in Data
    /\ size \in Len(data) .. MaxLength /\ phase \in {"read", "lines"} /\ outcome \in Outcomes
    /\ \A i \in 1 .. Len(events) : events[i] \in Data \ {"bad"}

Init ==
    /\ text \in Texts /\ got = 0 /\ closed = FALSE
    /\ buffer = <<>> /\ data = <<>> /\ size = 0 /\ events = <<>>
    /\ outcome = "none" /\ phase = "read"

Running(p) == outcome = "none" /\ phase = p

-----------------------------------------------------------------------------
(* Reading. *)

\* A piece arrives.
Receive(n) ==
    /\ Running("read") /\ ~closed
    /\ got' = got + n /\ buffer' = buffer \o SubSeq(text, got + 1, got + n)
    /\ phase' = "lines"
    /\ UNCHANGED <<text, closed, data, size, events, outcome>>

\* The server has sent everything and closes.
Close ==
    /\ Running("read") /\ got = Len(text) /\ ~closed
    /\ closed' = TRUE /\ phase' = "lines"
    /\ UNCHANGED <<text, got, buffer, data, size, events, outcome>>

\* The connection breaks.
Break ==
    /\ Running("read")
    /\ outcome' = "interrupted"
    /\ UNCHANGED <<text, got, closed, buffer, data, size, events, phase>>

\* The caller stops listening; it is seen where a piece is awaited.
Abort ==
    /\ Running("read")
    /\ outcome' = "cancelled"
    /\ UNCHANGED <<text, got, closed, buffer, data, size, events, phase>>

-----------------------------------------------------------------------------
(* Lines. *)

End == {i \in 1 .. Len(buffer) : buffer[i] \in Ends /\ \A j \in 1 .. i - 1 : buffer[j] \notin Ends}

Anyhow(i) == TRUE                                                           \* mutant
\* The last CR of a piece may be half of a line end.
Whole(i) == closed \/ buffer[i] # "CR" \/ i < Len(buffer)

Separator(i) == IF buffer[i] = "CR" /\ i < Len(buffer) /\ buffer[i + 1] = "LF" THEN 2 ELSE 1

Size(i) == size + (i - 1)

Result(event) == CASE event = "succeeded" -> "success" [] event = "failed" -> "failed" [] OTHER -> "none"

\* One round of the loop: a line that ends at i.
Line(i) ==
    /\ Running("lines") /\ i \in End /\ Whole(i)
    /\ buffer' = SubSeq(buffer, i + Separator(i), Len(buffer))
    /\ \/ Size(i) > Limit /\ outcome' = "interrupted" /\ UNCHANGED <<data, size, events>>
       \/ /\ Size(i) <= Limit /\ i = 1 /\ Len(data) = 0
          /\ size' = 0 /\ UNCHANGED <<data, events, outcome>>
       \/ \* Several data lines, or what is not JSON, are no event.
          /\ Size(i) <= Limit /\ i = 1 /\ (Len(data) > 1 \/ data = <<"bad">>)
          /\ outcome' = "interrupted" /\ UNCHANGED <<data, size, events>>
       \/ /\ Size(i) <= Limit /\ i = 1 /\ Len(data) = 1 /\ data # <<"bad">>
          /\ size' = 0 /\ data' = <<>> /\ events' = events \o data /\ outcome' = Result(data[1])
       \/ /\ Size(i) <= Limit /\ i > 1
          /\ size' = Size(i) /\ data' = IF buffer[1] \in Data THEN Append(data, buffer[1]) ELSE data
          /\ UNCHANGED <<events, outcome>>
    /\ UNCHANGED <<text, got, closed, phase>>

AtEnd == IF Len(buffer) + size > Limit \/ closed THEN "interrupted" ELSE "none"

\* No line is left: the next piece is awaited, unless this was the last one.
Drained ==
    /\ Running("lines") /\ \A i \in End : ~Whole(i)
    /\ outcome' = AtEnd /\ phase' = "read"
    /\ UNCHANGED <<text, got, closed, buffer, data, size, events>>

Next ==
    \/ \E n \in 1 .. Len(text) - got : Receive(n)
    \/ Close \/ Break \/ Abort \/ Drained
    \/ \E i \in End : Line(i)

Spec == Init /\ [][Next]_vars

-----------------------------------------------------------------------------
(* The events of a text as the format defines them, read from the whole text. *)

Contents(s) ==
    LET after(i) == IF i = 0 THEN 1 ELSE i + 1
        \* A line ends at i: an LF, or a CR that no LF follows, where the LF counts.
        EndsAt(i) == s[i] = "LF" \/ (s[i] = "CR" /\ (i = Len(s) \/ s[i + 1] # "LF"))
        line[i \in 0 .. Len(s)] ==
            IF i = 0 THEN <<>>
            ELSE IF ~EndsAt(i) THEN line[i - 1]
            ELSE LET from == {j \in 1 .. i - 1 : EndsAt(j)}
                     first == IF from = {} THEN 1 ELSE after(CHOOSE j \in from : \A k \in from : k <= j)
                 IN Append(line[i - 1], IF s[first] \in Lines THEN s[first] ELSE "blank")
    IN line[Len(s)]

\* What one line does to what was read: the events, the data since the last one, and the outcome.
Read(acc, l) ==
    IF acc.outcome # "none" THEN acc
    ELSE IF l \in Data THEN [acc EXCEPT !.data = Append(@, l), !.size = @ + 1]
    ELSE IF l = "field" THEN [acc EXCEPT !.size = @ + 1]
    ELSE IF acc.data = <<>> THEN [acc EXCEPT !.size = 0]
    ELSE IF Len(acc.data) > 1 \/ acc.data = <<"bad">> THEN [acc EXCEPT !.outcome = "interrupted"]
    ELSE [acc EXCEPT !.events = @ \o acc.data, !.data = <<>>, !.size = 0, !.outcome = Result(acc.data[1])]

Reference(s) ==
    LET lines == Contents(s)
        acc[n \in 0 .. Len(lines)] ==
            IF n = 0 THEN [events |-> <<>>, data |-> <<>>, size |-> 0, outcome |-> "none"]
            ELSE Read(acc[n - 1], lines[n])
        last == acc[Len(lines)]
    IN [events |-> last.events,
        outcome |-> IF last.outcome = "none" THEN "interrupted" ELSE last.outcome,
        largest |-> CHOOSE m \in {acc[n].size : n \in 0 .. Len(lines)} : \A n \in 0 .. Len(lines) : acc[n].size <= m]

-----------------------------------------------------------------------------
(* Properties. *)

\* However the text is cut into pieces, the same events are handed on and the same outcome is
\* answered, for events that stay below the limit.
EveryCut ==
    outcome \in {"success", "failed", "interrupted"} /\ (closed \/ outcome # "interrupted")
        => LET r == Reference(text) IN
              r.largest < Limit => events = r.events /\ outcome = r.outcome

\* "Transport EOF is not evidence that a remote operation completed": success was said.
SuccessIsSaid == outcome = "success" => events # <<>> /\ events[Len(events)] = "succeeded"

\* What is kept does not grow past an event and the piece that came last.
Bounded == Running("read") => Len(buffer) + size <= Limit
=============================================================================
