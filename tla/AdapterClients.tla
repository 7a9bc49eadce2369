--------------------------- MODULE AdapterClients ---------------------------
(***************************************************************************)
(* core/adapter.go: SendToWebhookAdapter and getAdapterClient, the senders *)
(* that an extension's process keeps, one for each organization.           *)
(*                                                                         *)
(* Callers are goroutines.  mWebhooks makes each access to whClients a     *)
(* step, but is not held while a sender is made, which takes a call to     *)
(* LimaCharlie: two callers may both make one.                             *)
(*                                                                         *)
(* External: limacharlie.WebhookSender, which is open until it is closed   *)
(* or its process ends.                                                    *)
(***************************************************************************)
CONSTANTS
  Callers,   \* concurrent calls of SendToWebhookAdapter
  Orgs,      \* organizations (OIDs)
  Clients,   \* WebhookSenders
  NoClient

ASSUME ClientsOK == NoClient \notin Clients

VARIABLES
  whClients,  \* whClients[o]: the sender kept for o, or NoClient
  open,       \* the senders that were made and not closed
  at,         \* each caller's next step
  oid,        \* the organization it sends for
  client      \* c, or newClient

clients == <<whClients, open, at, oid, client>>

Steps == {"out", "lookup", "make", "register", "send"}

(* Every variable holds a value of its type, and a caller that is about to *)
(* register or to use a sender has one.                                    *)
ClientsTypeOK ==
  /\ whClients \in [Orgs -> Clients \cup {NoClient}]
  /\ open \subseteq Clients
  /\ at \in [Callers -> Steps]
  /\ oid \in [Callers -> Orgs]
  /\ client \in [Callers -> Clients \cup {NoClient}]
  /\ \A c \in Callers : at[c] \in {"register", "send"} => client[c] \in Clients

(* oid says nothing of a caller before its first call.                     *)
ClientsInit ==
  /\ whClients = [o \in Orgs |-> NoClient]
  /\ open = {}
  /\ at = [c \in Callers |-> "out"]
  /\ oid \in [Callers -> Orgs]
  /\ client = [c \in Callers |-> NoClient]

-----------------------------------------------------------------------------
MoveTo(c, step) == at' = [at EXCEPT ![c] = step]

Leave(c) == MoveTo(c, "out") /\ client' = [client EXCEPT ![c] = NoClient]

(* A sender that nobody has.                                               *)
Unused == Clients \ (open \cup {client[c] : c \in Callers}
                          \cup {whClients[o] : o \in Orgs})

CallAdapter(c, o) ==
  /\ at[c] = "out"
  /\ MoveTo(c, "lookup")
  /\ oid' = [oid EXCEPT ![c] = o]
  /\ UNCHANGED <<whClients, open, client>>

(* Under the read lock.                                                    *)
Lookup(c) ==
  /\ at[c] = "lookup"
  /\ IF whClients[oid[c]] # NoClient
       THEN /\ MoveTo(c, "send")
            /\ client' = [client EXCEPT ![c] = whClients[oid[c]]]
       ELSE MoveTo(c, "make") /\ UNCHANGED client
  /\ UNCHANGED <<whClients, open, oid>>

(* NewWebhookSender.                                                       *)
Make(c) ==
  /\ at[c] = "make"
  /\ \E new \in Unused : /\ client' = [client EXCEPT ![c] = new]
                         /\ open' = open \cup {new}
  /\ MoveTo(c, "register")
  /\ UNCHANGED <<whClients, oid>>

MakeFails(c) ==
  /\ at[c] = "make"
  /\ Leave(c)
  /\ UNCHANGED <<whClients, open, oid>>

(* Mutants: the map is not looked at again; the loser does not close its   *)
(* own sender.                                                             *)
RegisterUnchecked(c) ==
  /\ at[c] = "register"
  /\ whClients' = [whClients EXCEPT ![oid[c]] = client[c]]
  /\ MoveTo(c, "send")
  /\ UNCHANGED <<open, oid, client>>

RegisterLeaks(c) ==
  /\ at[c] = "register"
  /\ IF whClients[oid[c]] = NoClient
       THEN /\ whClients' = [whClients EXCEPT ![oid[c]] = client[c]]
            /\ UNCHANGED client
       ELSE /\ client' = [client EXCEPT ![c] = whClients[oid[c]]]
            /\ UNCHANGED whClients
  /\ MoveTo(c, "send")
  /\ UNCHANGED <<open, oid>>

(* Under the write lock: whoever comes first is kept, whoever comes second *)
(* closes its own sender and takes the one that is kept.                   *)
Register(c) ==
  /\ at[c] = "register"
  /\ IF whClients[oid[c]] = NoClient
       THEN /\ whClients' = [whClients EXCEPT ![oid[c]] = client[c]]
            /\ UNCHANGED <<open, client>>
       ELSE /\ open' = open \ {client[c]}
            /\ client' = [client EXCEPT ![c] = whClients[oid[c]]]
            /\ UNCHANGED whClients
  /\ MoveTo(c, "send")
  /\ UNCHANGED oid

(* Send, with or without an error.                                         *)
SendData(c) ==
  /\ at[c] = "send"
  /\ Leave(c)
  /\ UNCHANGED <<whClients, open, oid>>

(* The process ends, and another one starts.                               *)
ForgetClients ==
  /\ whClients' = [o \in Orgs |-> NoClient]
  /\ open' = {}
  /\ at' = [c \in Callers |-> "out"]
  /\ client' = [c \in Callers |-> NoClient]
  /\ UNCHANGED oid

ClientStep(c) == Lookup(c) \/ Make(c) \/ MakeFails(c) \/ Register(c) \/ SendData(c)

ClientsNext ==
  \/ \E c \in Callers : ClientStep(c) \/ \E o \in Orgs : CallAdapter(c, o)
  \/ ForgetClients

ClientsSpec == ClientsInit /\ [][ClientsNext]_clients

-----------------------------------------------------------------------------
(* Nobody sends through a sender that was closed, or through another one   *)
(* than the organization's: about the second look at the map in            *)
(* getAdapterClient, when two callers have made one.                       *)
SendsThroughKept ==
  \A c \in Callers : at[c] = "send" =>
    /\ client[c] = whClients[oid[c]]
    /\ client[c] \in open

(* Each open sender is kept, or its maker is about to keep or close it, so *)
(* that an organization never has more than it has callers, and one when   *)
(* they are done.                                                          *)
NoLeakedClient ==
  \A k \in open : \/ \E o \in Orgs : whClients[o] = k
                  \/ \E c \in Callers : at[c] = "register" /\ client[c] = k
=============================================================================
