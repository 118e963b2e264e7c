----------------------------- MODULE Ownership -----------------------------
(***************************************************************************)
(* Ownership: what the domain operations of the Manager promise about who  *)
(* owns a domain, whatever calls they are made of. A domain changes hands  *)
(* only by requests of the accounts it belongs to: each is asked for by    *)
(* one account, does its one operation on that account's own binding at    *)
(* most once, may take it back once, and is then over. A request that is   *)
(* overtaken by others, even by the loss of the domain to somebody else,   *)
(* never touches another account's binding.                                *)
(***************************************************************************)
CONSTANTS Handlers, Users, DomainNames, None

VARIABLES
  users,    \* accounts
  bindings, \* who has which domain, and how it is proxied
  asked     \* per handler: the request it serves, and whether it is done

vars == <<users, bindings, asked>>

Binding == [user : Users, domain : DomainNames, proxy : BOOLEAN]

(* on is the flag to set, old the one to restore.                          *)
Request == [op : {"add", "del", "set"}, user : Users, domain : DomainNames,
            on : BOOLEAN, old : BOOLEAN, done : BOOLEAN]
Departure == [op : {"leave"}, user : Users, done : BOOLEAN]

Init == users = {} /\ bindings = {} /\ asked = [h \in Handlers |-> None]

Asks(h, op, done) == asked[h] # None /\ asked[h].op = op /\ asked[h].done = done
Begin(h, r) == asked[h] = None /\ asked' = [asked EXCEPT ![h] = r]
Done(h) == asked' = [asked EXCEPT ![h].done = TRUE]
Over(h) == asked' = [asked EXCEPT ![h] = None]

Free(d) == \A b \in bindings : b.domain # d
Own(r) == {b \in bindings : b.user = r.user /\ b.domain = r.domain}
Proxied(r, flag) == [user |-> r.user, domain |-> r.domain, proxy |-> flag]

-----------------------------------------------------------------------------
(* A new account: nobody still asks for an account of that id.             *)
Join(u) ==
  /\ u \notin users
  /\ \A h \in Handlers : asked[h] # None => asked[h].user # u
  /\ users' = users \cup {u}
  /\ UNCHANGED <<bindings, asked>>

(* An account binds a domain that is free, and may withdraw.               *)
Bind(h, r) ==
  /\ r.op = "add" /\ r.done
  /\ r.user \in users /\ Free(r.domain)
  /\ Begin(h, r)
  /\ bindings' = bindings \cup {Proxied(r, r.on)}
  /\ UNCHANGED users

Withdraw(h) ==
  /\ Asks(h, "add", TRUE)
  /\ bindings' = bindings \ Own(asked[h])
  /\ Over(h)
  /\ UNCHANGED users

(* Release and Switch are asked for by the account that has the domain.    *)
Ask(h, r) ==
  /\ r.op \in {"del", "set"} /\ ~r.done
  /\ Proxied(r, r.old) \in bindings
  /\ Begin(h, r)
  /\ UNCHANGED <<users, bindings>>

Release(h) ==
  /\ Asks(h, "del", FALSE)
  /\ bindings' = bindings \ Own(asked[h])
  /\ Done(h)
  /\ UNCHANGED users

(* What a removal puts back, if the domain is still free.                  *)
Restore(h) ==
  /\ Asks(h, "del", TRUE)
  /\ asked[h].user \in users /\ Free(asked[h].domain)
  /\ bindings' = bindings \cup {Proxied(asked[h], asked[h].old)}
  /\ Over(h)
  /\ UNCHANGED users

(* A binding that was made anew in between is left as it is.               *)
Flagged(r, flag) ==
  \/ UNCHANGED bindings
  \/ Own(r) # {} /\ bindings' = (bindings \ Own(r)) \cup {Proxied(r, flag)}

Switch(h) ==
  /\ Asks(h, "set", FALSE)
  /\ Flagged(asked[h], asked[h].on)
  /\ Done(h)
  /\ UNCHANGED users

SwitchBack(h) ==
  /\ Asks(h, "set", TRUE)
  /\ Flagged(asked[h], asked[h].old)
  /\ Over(h)
  /\ UNCHANGED users

(* An account leaves with all its domains.                                 *)
AskToLeave(h, r) ==
  /\ r.user \in users /\ ~r.done
  /\ Begin(h, r)
  /\ UNCHANGED <<users, bindings>>

Leave(h) ==
  /\ Asks(h, "leave", FALSE)
  /\ users' = users \ {asked[h].user}
  /\ bindings' = {b \in bindings : b.user # asked[h].user}
  /\ Done(h)

(* A request ends, with its operation done or not.                         *)
End(h) ==
  /\ asked[h] # None
  /\ Over(h)
  /\ UNCHANGED <<users, bindings>>

Next ==
  \/ \E u \in Users : Join(u)
  \/ \E h \in Handlers :
       \/ \E r \in Request : Bind(h, r) \/ Ask(h, r)
       \/ \E r \in Departure : AskToLeave(h, r)
       \/ Withdraw(h) \/ Release(h) \/ Restore(h) \/ Switch(h) \/ SwitchBack(h)
       \/ Leave(h) \/ End(h)

Spec == Init /\ [][Next]_vars
=============================================================================
