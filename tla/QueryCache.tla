------------------------------ MODULE QueryCache ------------------------------
(***************************************************************************)
(* What the admin UI uses of TanStack Query (v5), with the options main.tsx *)
(* gives it: no retries, everything stale at once.  A query is named by    *)
(* its key; its fetch is a GET, a mutation is any other call.  A call is    *)
(* sent, then executed by the server, then answered; answers come in any   *)
(* order.  A failed fetch keeps the data of the last one that succeeded,   *)
(* and what nothing displays stays cached.                                 *)
(*                                                                         *)
(* A browser tab's requests and cache are one record, client, so that what *)
(* one callback does to them can be composed.                              *)
(***************************************************************************)
EXTENDS Naturals, Sequences, SequencesExt

CONSTANTS
    None,
    MaxFaults     \* calls or answers the network may lose in a run

VARIABLES
    client,       \* [cache, sent, answers] of the tab
    faults        \* how many the network has lost

netVars == <<client, faults>>

(* A call: as is the session it is sent with.                              *)
Call(method, path, as, body) ==
    [method |-> method, path |-> path, as |-> as, body |-> body]

EmptyEntry == [data |-> None, error |-> FALSE]
EmptyClient(keys) ==
    [cache |-> [k \in keys |-> EmptyEntry], sent |-> {}, answers |-> <<>>]

AnswersOf(c) == ToSet(c.answers)
CallsOf(c) == c.sent \cup {a.call : a \in AnswersOf(c)}

(* apiClient.get fills the query of that key.                              *)
Fetches(call, k) == call.method = "GET" /\ call.path = k
Fetching(c, k) == \E call \in CallsOf(c) : Fetches(call, k)
Data(c, k) == c.cache[k].data
IsError(c, k) == c.cache[k].error /\ ~(Fetching(c, k) /\ Data(c, k) = None)
IsLoading(c, k) == Fetching(c, k) /\ Data(c, k) = None
Mutating(c) == {call \in CallsOf(c) : call.method # "GET"}

Send(c, call) == [c EXCEPT !.sent = @ \cup {call}]

(* The fetch of each key; one that is in flight is joined.                 *)
FetchAll(c, keys, as) ==
    [c EXCEPT !.sent = @ \cup
        {Call("GET", k, as, None) : k \in {q \in keys : ~Fetching(c, q)}}]

(* The promise of a fetch is dropped; what arrives later is ignored.       *)
Remaining(answers, keys) ==
    LET Dropped(call) == call.method = "GET" /\ call.path \in keys
        prefix[n \in 0 .. Len(answers)] ==
            IF n = 0 THEN <<>>
            ELSE IF Dropped(answers[n].call) THEN prefix[n - 1]
            ELSE Append(prefix[n - 1], answers[n])
    IN prefix[Len(answers)]

CancelAll(c, keys) ==
    [c EXCEPT !.sent = {call \in @ : ~(call.method = "GET" /\ call.path \in keys)},
              !.answers = Remaining(@, keys)]

(* invalidateQueries: of the keys with the prefix, those on display are    *)
(* fetched again; a fetch in flight is started over when there is data,    *)
(* and joined when there is none.                                          *)
Invalidate(c, prefix, active, as) ==
    LET keys == {k \in active : IsPrefix(prefix, k)}
    IN FetchAll(CancelAll(c, {k \in keys : Data(c, k) # None}), keys, as)

SetQueryData(c, k, data) ==
    [c EXCEPT !.cache[k] = [data |-> data, error |-> FALSE]]

(* queryClient.clear.                                                      *)
Clear(c) ==
    [CancelAll(c, DOMAIN c.cache) EXCEPT
        !.cache = [k \in DOMAIN @ |-> EmptyEntry]]

(* The end of a fetch.                                                     *)
Settle(c, a) ==
    IF a.call.method # "GET" THEN c
    ELSE IF a.ok THEN SetQueryData(c, a.call.path, a.data)
    ELSE [c EXCEPT !.cache[a.call.path].error = TRUE]

Arrivable == DOMAIN client.answers
WithoutAnswer(i) == [client EXCEPT !.answers = RemoveAt(@, i)]

Answer(call, ok, data) == [call |-> call, ok |-> ok, data |-> data]
Answered(c, a) ==
    [c EXCEPT !.sent = @ \ {a.call}, !.answers = Append(@, a)]

(* A call that never reaches the server, and an answer that is lost.       *)
NetworkFails ==
    /\ faults < MaxFaults
    /\ faults' = faults + 1
    /\ \/ \E call \in client.sent : client' = Answered(client, Answer(call, FALSE, None))
       \/ \E i \in DOMAIN client.answers :
            /\ client.answers[i].ok
            /\ client' = [client EXCEPT !.answers[i].ok = FALSE]
=============================================================================
