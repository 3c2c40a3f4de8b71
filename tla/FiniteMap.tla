----------------------------- MODULE FiniteMap -----------------------------
(***************************************************************************)
(* What a hash table promises: a finite map from keys to values.  Every    *)
(* call takes effect once, between its start and its end, and nothing else *)
(* changes the map.  HashTables implements it.                             *)
(***************************************************************************)
CONSTANTS Keys, Values, NoValue

VARIABLES
    map,        \* a function from the keys that have an entry
    answer,     \* what GETHASH returned, until the next call
    request     \* the call that has not taken effect yet

vars == <<map, answer, request>>

NoRequest == [op |-> "none"]
Requests == [op : {"get", "rem"}, key : Keys]
            \cup [op : {"set"}, key : Keys, val : Values]
            \cup [op : {"clear"}]

Init == map = <<>> /\ answer = NoValue /\ request = NoRequest

Ask == /\ request = NoRequest
       /\ request' \in Requests
       /\ answer' = NoValue
       /\ UNCHANGED map

With(k, v) == [j \in DOMAIN map \cup {k} |-> IF j = k THEN v ELSE map[j]]
Without(k) == [j \in DOMAIN map \ {k} |-> map[j]]

Perform ==
    /\ \/ /\ request.op = "get"
          /\ answer' = IF request.key \in DOMAIN map THEN map[request.key] ELSE NoValue
          /\ UNCHANGED map
       \/ /\ request.op = "set"
          /\ map' = With(request.key, request.val)
          /\ UNCHANGED answer
       \/ /\ request.op = "rem"
          /\ map' = Without(request.key)
          /\ UNCHANGED answer
       \/ /\ request.op = "clear"
          /\ map' = <<>>
          /\ UNCHANGED answer
    /\ request' = NoRequest

Spec == Init /\ [][Ask \/ Perform]_vars
=============================================================================
