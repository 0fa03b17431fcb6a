----------------------------- MODULE BlockDevice -----------------------------
(***************************************************************************)
(* What the driver of the card promises the file system: until a call      *)
(* fails, a call that succeeds has read or written its blocks, all of them *)
(* and no others; and whatever fails, a block of the card changes only to  *)
(* what a write meant for it.                                              *)
(***************************************************************************)
EXTENDS Integers, Sequences

CONSTANT Address

NoRequest == [kind |-> "none", addr |-> 0, n |-> 0, no |-> 0]

VARIABLES
    store,
    request,     \* the call in progress, or NoRequest
    open,        \* blocks of writes that may still reach the card
    writes,      \* calls that wrote
    buf,
    reply,
    failed       \* some call has failed
vars == <<store, request, open, writes, buf, reply, failed>>

Init ==
    /\ store = [a \in Address |-> [to |-> a, no |-> 0]]
    /\ request = NoRequest /\ open = {} /\ writes = 0 /\ buf = <<>> /\ reply = "none"
    /\ failed = FALSE

Blocks(r) == {[to |-> r.addr + k, no |-> r.no] : k \in 0 .. r.n - 1}

Begin ==
    /\ request = NoRequest /\ request' # NoRequest
    /\ request'.addr \in Address /\ request'.addr + request'.n - 1 \in Address
    /\ \/ /\ request'.kind = "read"
          /\ UNCHANGED <<open, writes>>
       \/ /\ request'.kind = "write"
          /\ writes' = writes + 1 /\ request'.no = writes'
          /\ open' = open \cup Blocks(request')
    /\ buf' = <<>> /\ reply' = "none"
    /\ UNCHANGED <<store, failed>>

\* A block reaches the card ...
Land ==
    /\ \E b \in open : store' = [store EXCEPT ![b.to] = b]
    /\ open' \subseteq open
    /\ UNCHANGED <<request, writes, buf, reply, failed>>

\* ... or never will.
Drop ==
    /\ open' \subseteq open
    /\ UNCHANGED <<store, request, writes, buf, reply, failed>>

ReadDone ==
    /\ request # NoRequest /\ request.kind = "read"
    /\ failed \/ buf' = [k \in 1 .. request.n |-> store[request.addr + k - 1]]
    /\ request' = NoRequest /\ reply' = "OK" /\ open' \subseteq open
    /\ UNCHANGED <<store, writes, failed>>

WriteDone ==
    /\ request # NoRequest /\ request.kind = "write"
    /\ failed \/ (open' = {} /\ \A b \in Blocks(request) : store[b.to] = b)
    /\ request' = NoRequest /\ reply' = "OK" /\ open' \subseteq open
    /\ UNCHANGED <<store, writes, buf, failed>>

Fail ==
    /\ request # NoRequest
    /\ request' = NoRequest /\ reply' = "ERR" /\ failed' = TRUE /\ open' \subseteq open
    /\ UNCHANGED <<store, writes, buf>>

Next == Begin \/ Land \/ Drop \/ ReadDone \/ WriteDone \/ Fail

Spec == Init /\ [][Next]_vars
==============================================================================
