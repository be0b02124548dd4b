-------------------------------- MODULE Acl ---------------------------------
(***************************************************************************)
(* Authentication: the default user, the flag of each registered client,   *)
(* the gate of process_task, AUTH and ACL SETUSER.                         *)
(*                                                                         *)
(* The worker runs one task at a time, so each handler is one step; what   *)
(* interleaves are the tasks of the clients.  A password stands for its    *)
(* hash; hashing may fail.  Of the commands behind the gate, SUBSCRIBE and *)
(* UNSUBSCRIBE are kept, since the gate looks at the subscriptions too.    *)
(***************************************************************************)
EXTENDS Naturals, Sequences, SequencesExt, FiniteSetsExt

CONSTANTS
  Clients,         \* connections
  Passwords,       \* passwords
  ConfiguredUser,  \* the password of --requirepass in a set, or the empty set
  MaxRules         \* bound: rules of an ACL SETUSER

ASSUME AclAssumption ==
  /\ ConfiguredUser \in {{}} \cup {{p} : p \in Passwords}
  /\ MaxRules \in Nat

VARIABLES
  default_user,   \* _default_user
  authenticated,  \* the flag of each client in _clients
  subscribed,     \* the clients in _client_subscriptions
  reply,          \* the answer of the latest command
  request         \* the latest command and its client

vars == <<default_user, authenticated, subscribed, reply, request>>

registered == DOMAIN authenticated

(* The rules of ACL SETUSER: nopass, a password, or anything else.            *)
Rules ==
  [rule : {"nopass", "other"}] \cup [rule : {"password"}, password : Passwords]

NoRequest == [command |-> "none"]

-----------------------------------------------------------------------------
make_default_acl_user(configured) ==
  [no_password |-> configured = {}, password_hashes |-> configured]

(* process_client_registration: who connects while no password is needed is   *)
(* authenticated.                                                             *)
process_client_registration(c) ==
  /\ c \notin registered
  /\ authenticated' = [d \in registered \cup {c} |->
                         IF d = c THEN default_user.no_password ELSE authenticated[d]]
  /\ request' = NoRequest
  /\ UNCHANGED <<default_user, subscribed, reply>>

process_client_unregistration(c) ==
  /\ c \in registered
  /\ authenticated' = [d \in registered \ {c} |-> authenticated[d]]
  /\ subscribed' = subscribed \ {c}
  /\ request' = NoRequest
  /\ UNCHANGED <<default_user, reply>>

-----------------------------------------------------------------------------
(* What one rule makes of the copy that acl_setuser works on.                 *)
apply_rule(user, rule) ==
  IF rule.rule = "nopass"
  THEN [no_password |-> TRUE, password_hashes |-> {}]
  ELSE [no_password |-> FALSE, password_hashes |-> user.password_hashes \cup {rule.password}]

updated_user(user, rules) == FoldLeft(apply_rule, user, rules)

(* Faulty variant: the rules before a bad one stay in force.                  *)
acl_setuser_in_place(rules, failing) ==
  LET bad == {i \in DOMAIN rules : rules[i].rule = "other"} \cup failing
      good == IF bad = {} THEN rules ELSE SubSeq(rules, 1, Min(bad) - 1)
  IN  /\ default_user' = updated_user(default_user, good)
      /\ reply' = IF bad = {} THEN "OK" ELSE "ERR"

(* acl_setuser; `failing` are the rules whose password cannot be hashed.  The *)
(* copy replaces the user only if every rule was applied.                     *)
acl_setuser(rules, failing) ==
  \/ /\ failing = {} /\ \A i \in DOMAIN rules : rules[i].rule # "other"
     /\ default_user' = updated_user(default_user, rules)
     /\ reply' = "OK"
  \/ /\ failing # {} \/ \E i \in DOMAIN rules : rules[i].rule = "other"
     /\ reply' = "ERR"
     /\ UNCHANGED default_user

(* Faulty variant: the flag is set to whether the credentials match.          *)
authenticate_assigning(c, username, password, hashed) ==
  LET matches == \/ default_user.no_password
                 \/ hashed /\ password \in default_user.password_hashes
  IN  /\ reply' = IF matches /\ username = "default" THEN "OK" ELSE "WRONGPASS"
      /\ authenticated' = [authenticated EXCEPT ![c] = matches /\ username = "default"]

(* authenticate: the client is registered, since its connection waits for     *)
(* that before it reads.                                                      *)
authenticate(c, username, password, hashed) ==
  \/ /\ username # "default"
     /\ reply' = "WRONGPASS" /\ UNCHANGED authenticated
  \/ /\ username = "default" /\ ~default_user.no_password /\ ~hashed
     /\ reply' = "ERR" /\ UNCHANGED authenticated
  \/ /\ username = "default" /\ ~default_user.no_password /\ hashed
     /\ password \notin default_user.password_hashes
     /\ reply' = "WRONGPASS" /\ UNCHANGED authenticated
  \/ /\ username = "default"
     /\ default_user.no_password \/ (hashed /\ password \in default_user.password_hashes)
     /\ reply' = "OK" /\ authenticated' = [authenticated EXCEPT ![c] = TRUE]

(* Faulty variant: the gate lets SUBSCRIBE and UNSUBSCRIBE through.           *)
passes_gate_unless_data(c, command) ==
  command \in {"AUTH", "SUBSCRIBE", "UNSUBSCRIBE"} \/ authenticated[c]

(* The two gates of process_task: authentication, then subscribed mode.       *)
passes_gate(c, command) == command = "AUTH" \/ authenticated[c]
allowed_while_subscribed(command) == command \in {"SUBSCRIBE", "UNSUBSCRIBE", "PING"}

(* process_task for a client command; PING stands for a command that changes  *)
(* nothing here, GET for one that is refused while subscribed.                *)
process_task(c, command) ==
  /\ c \in registered
  /\ request' = command
  /\ \/ /\ ~passes_gate(c, command.command)
        /\ reply' = "NOAUTH"
        /\ UNCHANGED <<default_user, authenticated, subscribed>>
     \/ /\ passes_gate(c, command.command)
        /\ c \in subscribed /\ ~allowed_while_subscribed(command.command)
        /\ reply' = "ERR"
        /\ UNCHANGED <<default_user, authenticated, subscribed>>
     \/ /\ passes_gate(c, command.command)
        /\ c \notin subscribed \/ allowed_while_subscribed(command.command)
        /\ \/ /\ command.command = "AUTH"
              /\ \E hashed \in BOOLEAN :
                   authenticate(c, command.username, command.password, hashed)
              /\ UNCHANGED <<default_user, subscribed>>
           \/ /\ command.command = "SETUSER"
              /\ \E failing \in {{}} \cup {{i} : i \in DOMAIN command.rules} :
                   /\ \A i \in failing : command.rules[i].rule = "password"
                   /\ acl_setuser(command.rules, failing)
              /\ UNCHANGED <<authenticated, subscribed>>
           \/ /\ command.command \in {"PING", "GET"}
              /\ reply' = "OK"
              /\ UNCHANGED <<default_user, authenticated, subscribed>>
           \/ /\ command.command = "SUBSCRIBE"
              /\ reply' = "OK" /\ subscribed' = subscribed \cup {c}
              /\ UNCHANGED <<default_user, authenticated>>
           \/ /\ command.command = "UNSUBSCRIBE"
              /\ reply' = "OK" /\ subscribed' = subscribed \ {c}
              /\ UNCHANGED <<default_user, authenticated>>

Commands ==
  [command : {"PING", "GET", "SUBSCRIBE", "UNSUBSCRIBE"}]
    \cup [command : {"AUTH"}, username : {"default", "other"}, password : Passwords]
    \cup [command : {"SETUSER"}, rules : UNION {[1..n -> Rules] : n \in 0..MaxRules}]

Init ==
  /\ default_user = make_default_acl_user(ConfiguredUser)
  /\ authenticated = [c \in {} |-> FALSE]
  /\ subscribed = {}
  /\ reply = "OK" /\ request = NoRequest

Next ==
  \E c \in Clients :
    \/ process_client_registration(c)
    \/ process_client_unregistration(c)
    \/ \E command \in Commands : process_task(c, command)

Spec == Init /\ [][Next]_vars

-----------------------------------------------------------------------------
(* A session lasts as long as its connection and begins with it, if no         *)
(* password is needed then, or else only with a successful AUTH on it: neither *)
(* a password set by another client nor a failed AUTH of its own shuts a       *)
(* client out again, and a client that was connected without a session does    *)
(* not get one because no password is needed any longer.                       *)
SessionKept ==
  [][\A c \in registered \cap registered' :
       /\ authenticated[c] => authenticated'[c]
       /\ authenticated'[c] /\ ~authenticated[c] => request'.command = "AUTH" /\ reply' = "OK"]_vars

(* A subscribed client is authenticated, so the gate never has to answer       *)
(* NOAUTH through a Pub/Sub session.                                           *)
SubscribersAuthenticated == \A c \in subscribed : c \in registered /\ authenticated[c]

(* The user that a list of rules asks for: what stands before the last nopass  *)
(* does not matter.                                                            *)
asked_user(user, rules) ==
  LET last == Max({0} \cup {i \in DOMAIN rules : rules[i].rule = "nopass"})
      added == {rules[i].password : i \in {j \in DOMAIN rules : j > last}}
      kept == IF last = 0 THEN user.password_hashes ELSE {}
  IN  [no_password |-> added = {} /\ (last > 0 \/ user.no_password),
       password_hashes |-> kept \cup added]

(* ACL SETUSER applies all of its rules or none: what its client is told says  *)
(* which, and no other command changes the user.                               *)
SetUserAllOrNothing ==
  [][default_user' =
       IF request'.command = "SETUSER" /\ reply' = "OK"
       THEN asked_user(default_user, request'.rules)
       ELSE default_user]_vars
=============================================================================
