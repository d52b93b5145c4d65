------------------------------ MODULE Identity ------------------------------
(***************************************************************************)
(* Who is who (impact/normalize/actors.py). Phase 1 meets people as        *)
(* accounts of GitHub and as the name and address that sign a commit; it   *)
(* gives each a key, means to gather the keys of one person by their       *)
(* addresses, and says which are bots and which assistants. Probabilities  *)
(* are in hundredths.                                                      *)
(***************************************************************************)
EXTENDS Integers, FiniteSetsExt

CONSTANTS
  Accounts,          \* [login, type]: who GitHub says did something
  Signatures,        \* [name, email] of authors, committers and co-authors
  LoginIn,           \* LoginIn[email]: of a noreply address, else Nobody
  Addresses,         \* what has the form of an address
  Nobody,            \* no login, and no name or address that is not blank
  BotRules,          \* [kind, hits, probability], hits a set of texts
  BotProbability,    \* from which it is a bot
  AssistantMails, AssistantLogins

ASSUME BlankIsNoAddress == Nobody \notin Addresses

ASSUME FinitelyMany == IsFiniteSet(Accounts) /\ IsFiniteSet(Signatures)

User(login) == <<"user", login>>

Mail(text) == <<"mail", text>>

Unknowable == <<"unknown", Nobody>>

\* An address names its account if GitHub made it for one; who has neither is
\* keyed by the name.
KeyOf(s) ==
  IF s.email = Nobody THEN (IF s.name = Nobody THEN Unknowable ELSE Mail(s.name))
  ELSE IF LoginIn[s.email] = Nobody THEN Mail(s.email) ELSE User(LoginIn[s.email])

Keys == {User(a.login) : a \in Accounts} \union {KeyOf(s) : s \in Signatures}

Login(k) == IF k[1] = "user" THEN k[2] ELSE Nobody

Emails(k) == {s.email : s \in {x \in Signatures : KeyOf(x) = k}} \intersect Addresses

-----------------------------------------------------------------------------
(* Gathering.                                                                *)

\* One address under several logins is a role, not a person.
RoleAddress(e) ==
  Cardinality({Login(k) : k \in {j \in Keys : e \in Emails(j)}} \ {Nobody}) > 1

SameAddress(i, j) == \E e \in Emails(i) \intersect Emails(j) : ~RoleAddress(e)

\* The sets of the union-find when all links are in.
Gathered(k) ==
  LET near[n \in Nat] ==
        IF n = 0 THEN {k}
        ELSE LET so == near[n - 1]
             IN  so \union {j \in Keys : \E i \in so : SameAddress(i, j)}
  IN  near[Cardinality(Keys)]

\* Of a key. The code names the set after its least key.
person == [k \in Keys |-> Gathered(k)]

-----------------------------------------------------------------------------
(* Classification.                                                           *)

Hit(rule, k) ==
  CASE rule.kind = "typename" -> \E a \in Accounts : User(a.login) = k /\ a.type \in rule.hits
    [] rule.kind = "login"    -> Login(k) \in rule.hits
    [] rule.kind = "email"    -> Emails(k) \intersect rule.hits # {}

Suspicion(k) == Max({0} \union {r.probability : r \in {x \in BotRules : Hit(x, k)}})

IsBot(k) == Suspicion(k) >= BotProbability

IsAssistant(k) ==
  \/ \E s \in Signatures : KeyOf(s) = k /\ s.email \in AssistantMails
  \/ Login(k) \in AssistantLogins

\* A person is what the first of the keys with a login is, if there is one.
Primary(p) ==
  LET named == {k \in p : Login(k) # Nobody}
  IN  IF named # {} THEN CHOOSE k \in named : TRUE ELSE CHOOSE k \in p : TRUE

Bots == {p \in {person[k] : k \in Keys} : IsBot(Primary(p))}
=============================================================================
