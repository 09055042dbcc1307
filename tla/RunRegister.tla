---------------------------- MODULE RunRegister ----------------------------
(***************************************************************************)
(* What ports/run_repository.py promises whoever uses the run store: a     *)
(* register of runs by identifier.  A run is stored whole and at one       *)
(* moment, is never changed afterwards, and get returns it whole or not at *)
(* all.  Replies are [id, how, run].                                       *)
(***************************************************************************)
CONSTANTS
    Clients,  \* whoever calls add and get
    Entries,  \* what a run is stored as: set of [id, content]
    None

VARIABLES
    stored,   \* content by identifier, of the runs stored so far
    reply     \* the reply of each client's last call; None while one runs

Reply(id, how, run) == [id |-> id, how |-> how, run |-> run]

Init == stored = <<>> /\ reply = [c \in Clients |-> None]

Replies(c, r) == reply' = [reply EXCEPT ![c] = r]

Call(c) == Replies(c, None) /\ UNCHANGED stored

\* A client whose answer is lost does not know that its run is stored.
Add(c, e) ==
    /\ \E how \in {"stored", "failed"} : Replies(c, Reply(e.id, how, None))
    /\ e.id \notin DOMAIN stored
    /\ stored' = [id \in DOMAIN stored \cup {e.id} |->
                     IF id = e.id THEN e.content ELSE stored[id]]

Refuse(c, id) == Replies(c, Reply(id, "failed", None)) /\ UNCHANGED stored

Get(c, id) ==
    /\ Replies(c, IF id \in DOMAIN stored THEN Reply(id, "read", stored[id])
                  ELSE Reply(id, "absent", None))
    /\ UNCHANGED stored

\* A call need not name a run: to open the store is one, too.
Next ==
    \E c \in Clients :
        \/ Call(c) \/ Refuse(c, None)
        \/ \E e \in Entries : Add(c, e) \/ Refuse(c, e.id) \/ Get(c, e.id)

Spec == Init /\ [][Next]_<<stored, reply>>
=============================================================================
