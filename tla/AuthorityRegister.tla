-------------------------- MODULE AuthorityRegister --------------------------
(***************************************************************************)
(* What governance promises about who may govern, as if a table kept it:   *)
(* one founder, for good, and for everyone else the human whose grant they *)
(* hold.  A grant and its end are acts of one human who holds authority    *)
(* upon one other; a grant never replaces another, and nobody but the      *)
(* founder or the grantor ends one.  That a grantor loses their own        *)
(* authority changes nothing for those they granted it to.                 *)
(***************************************************************************)
CONSTANTS Human, NoOne
VARIABLES founder, grantor

Holders == {u \in Human : u = founder \/ grantor[u] # NoOne}

Init == founder = NoOne /\ grantor = [u \in Human |-> NoOne]

Found ==
    /\ founder = NoOne
    /\ founder' \in Human
    /\ UNCHANGED grantor

Grant(by) ==
    /\ \E to \in Human \ Holders : grantor' = [grantor EXCEPT ![to] = by]
    /\ UNCHANGED founder

End(by) ==
    /\ \E from \in Human :
         /\ grantor[from] # NoOne
         /\ by \in {founder, grantor[from]}
         /\ grantor' = [grantor EXCEPT ![from] = NoOne]
    /\ UNCHANGED founder

Next == Found \/ \E by \in Holders : Grant(by) \/ End(by)

Spec == Init /\ [][Next]_<<founder, grantor>>
=============================================================================
