------------------------------ MODULE Accounts ------------------------------
(***************************************************************************)
(* AccountService (mudd/src/auth/accounts.rs) and the requests that reach  *)
(* it (mudd/src/api/auth.rs, and the handshake of a WebSocket): one row    *)
(* per name in the accounts table, with the password and one token.        *)
(*                                                                         *)
(* The service writes to the pool itself, not through Raft.  register and  *)
(* login look at the row and write it in two statements, between which     *)
(* other requests come and go.                                             *)
(***************************************************************************)
EXTENDS Naturals

CONSTANTS
    Clients,     \* bound: requests in progress at a time
    Names,       \* usernames
    Passwords,   \* passwords presented
    MaxTokens,   \* bound: tokens generated
    Nil          \* no row, no token

Token == 1..MaxTokens
Account == [password : Passwords, token : Token \cup {Nil}]

ASSUME AccountsAssumption ==
    /\ MaxTokens \in Nat
    /\ Nil \notin Passwords \cup Account
    /\ Nil \notin Nat

VARIABLES
    accounts,    \* the row of a name: its password and its token
    request,     \* each client: where its request is, and what it carries
    held,        \* the token each client was last answered with
    tokens,      \* how many tokens have been generated
    spent,       \* history: the tokens that have been in some row
    shown        \* history: the password of the request that put each there

accountVars == <<accounts, request, held, tokens, spent, shown>>

NoRequest == [at |-> "idle", name |-> Nil, password |-> Nil, token |-> Nil]
Request == [at : {"insert", "update"}, name : Names, password : Passwords, token : Token]

AccountsTypeOK ==
    /\ accounts \in [Names -> Account \cup {Nil}]
    /\ request \in [Clients -> Request \cup {NoRequest}]
    /\ held \in [Clients -> Token \cup {Nil}]
    /\ tokens \in 0..MaxTokens
    /\ spent \subseteq 1..tokens
    /\ shown \in [Token -> Passwords \cup {Nil}]

AccountInit ==
    /\ accounts = [n \in Names |-> Nil]
    /\ request = [c \in Clients |-> NoRequest]
    /\ held = [c \in Clients |-> Nil]
    /\ tokens = 0 /\ spent = {}
    /\ shown = [t \in Token |-> Nil]

----------------------------------------------------------------------------
Taken(n) == accounts[n] # Nil
TokenOf(n) == IF Taken(n) THEN accounts[n].token ELSE Nil

\* generate_token: one that was never there.
Fresh(t) == tokens < MaxTokens /\ t = tokens + 1 /\ tokens' = t

Ask(c, at, n, p) ==
    \E t \in Token :
        /\ request[c].at = "idle"
        /\ Fresh(t)
        /\ request' = [request EXCEPT ![c] =
                         [at |-> at, name |-> n, password |-> p, token |-> t]]
        /\ UNCHANGED <<accounts, held, spent, shown>>

\* A name that is taken, a wrong password, a query that fails: 409, 401 or 500.
Rejected(c) == request[c].at = "idle" /\ UNCHANGED accountVars

\* create_account finds no such name.
Register(c, n, p) == ~Taken(n) /\ Ask(c, "insert", n, p)

\* Fault: INSERT OR REPLACE.
InsertOver(c) ==
    LET r == request[c] IN
    /\ r.at = "insert"
    /\ accounts' = [accounts EXCEPT ![r.name] = [password |-> r.password, token |-> r.token]]
    /\ spent' = spent \cup {r.token}
    /\ shown' = [shown EXCEPT ![r.token] = r.password]
    /\ held' = [held EXCEPT ![c] = r.token]
    /\ request' = [request EXCEPT ![c] = NoRequest]
    /\ UNCHANGED tokens

\* The username is UNIQUE.
Insert(c) ==
    LET r == request[c] IN
    /\ r.at = "insert" /\ ~Taken(r.name)
    /\ accounts' = [accounts EXCEPT ![r.name] = [password |-> r.password, token |-> r.token]]
    /\ spent' = spent \cup {r.token}
    /\ shown' = [shown EXCEPT ![r.token] = r.password]
    /\ held' = [held EXCEPT ![c] = r.token]
    /\ request' = [request EXCEPT ![c] = NoRequest]
    /\ UNCHANGED tokens

\* login, with the password of the account.
Login(c, n, p) ==
    /\ Taken(n) /\ accounts[n].password = p
    /\ Ask(c, "update", n, p)

RenewToken(c) ==
    LET r == request[c] IN
    /\ r.at = "update"
    /\ accounts' = [accounts EXCEPT ![r.name].token = r.token]
    /\ spent' = spent \cup {r.token}
    /\ shown' = [shown EXCEPT ![r.token] = r.password]
    /\ held' = [held EXCEPT ![c] = r.token]
    /\ request' = [request EXCEPT ![c] = NoRequest]
    /\ UNCHANGED tokens

\* The write fails, or meets the name of an account created meanwhile: 500.
WriteFails(c) ==
    /\ request[c].at \in {"insert", "update"}
    /\ request' = [request EXCEPT ![c] = NoRequest]
    /\ UNCHANGED <<accounts, held, tokens, spent, shown>>

\* validate_token: the account a token stands for, if any.
Validate(t) == {n \in Names : t # Nil /\ TokenOf(n) = t}

\* UPDATE accounts SET token = NULL WHERE token = ?: by whoever holds it.
Logout(c) ==
    /\ request[c].at = "idle" /\ held[c] # Nil
    /\ accounts' = [n \in Names |->
                      IF n \in Validate(held[c])
                      THEN [accounts[n] EXCEPT !.token = Nil] ELSE accounts[n]]
    /\ held' = [held EXCEPT ![c] = Nil]
    /\ UNCHANGED <<request, tokens, spent, shown>>

AccountNext ==
    \E c \in Clients :
        \/ \E n \in Names, p \in Passwords : Register(c, n, p) \/ Login(c, n, p)
        \/ Rejected(c) \/ Insert(c) \/ RenewToken(c) \/ WriteFails(c) \/ Logout(c)

AccountSpec == AccountInit /\ [][AccountNext]_accountVars

----------------------------------------------------------------------------
\* mod.rs "token-based authentication": the accounts implement the book of
\* tokens, whatever requests for one name cross each other: only a request that
\* shows the password the name was claimed with puts a token in force.
Book == INSTANCE TokenBook WITH
          Secrets <- Passwords, Tokens <- Token, None <- Nil,
          owner <- [n \in Names |-> IF Taken(n) THEN accounts[n].password ELSE Nil],
          valid <- [n \in Names |-> TokenOf(n)]
ImplementsTokenBook == Book!Spec
=============================================================================
