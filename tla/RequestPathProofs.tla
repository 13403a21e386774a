--------------------------- MODULE RequestPathProofs ---------------------------
(***************************************************************************)
(* Theorems about authentication and authority, for any number of requests *)
(* at a time, users, credentials, scopes, notes and faults.                *)
(***************************************************************************)
EXTENDS RequestPath, TLAPS

TypeInv ==
  /\ TypeOK
  /\ match = [q \in Request |-> match[q]]
  /\ principal = [q \in Request |-> principal[q]]

\* The file holds nothing that was not issued, and an id says which token it is.
GrantInv ==
  /\ users.doc.tokens \subseteq granted
  /\ \A a, b \in granted : a.id = b.id => a = b

\* A tool is listed only for a token that has its scope.
ShownInv ==
  \A s \in shown : \E tk \in granted : tk.id = s[1] /\ HasScope(tk, ToolScope[s[2]])

\* A note is owned by the subject of the write credential it was added with.
NoteInv ==
  \A i \in DOMAIN notes : \E tk \in granted :
    tk.id = notes[i].by /\ tk.owner = notes[i].owner /\ HasScope(tk, "notes:write")

\* What was found for a request, and who it turned out to be, is the token with the id
\* it presented.
WhoInv(q) ==
  /\ pc[q] = "idle" => match[q] = {} /\ principal[q] = {}
  /\ \A m \in match[q] : m.token \in granted /\ m.token.id = req[q].cred
  /\ \A tk \in principal[q] : tk \in granted /\ tk.id = req[q].cred

\* What a lookup found says what was true when it was made: the credential of an
\* enabled user was live then, or had expired, and so it is expired now.
MatchInv(q) ==
  pc[q] = "matched" =>
    \A m \in match[q] :
      /\ ~ m.enabled => wasDead[q]
      /\ m.enabled => wasLive[q] \/ IsExpired(m.token, now)

\* Whoever got past authentication was live; whoever may call has the scope.
AuthInv(q) ==
  /\ pc[q] \in {"authenticated", "authorized"} => wasLive[q]
  /\ pc[q] = "authorized" =>
       req[q].op \in Tool /\ \A tk \in principal[q] : HasScope(tk, ToolScope[req[q].op])

\* The reason there is for an answer with this code and these notes read.
Justified(q, code, read) ==
  /\ code = Unauthenticated => wasDead[q] \/ ~ Live(users, req[q].cred, now)
  /\ code = "forbidden" =>
       \E tk \in granted : tk.id = req[q].cred /\ ~ HasScope(tk, ToolScope[req[q].op])
  /\ req[q].op = "notes_list" /\ code = "ok" =>
       /\ read \subseteq DOMAIN notes
       /\ \E tk \in granted :
            /\ tk.id = req[q].cred /\ HasScope(tk, "notes:read")
            /\ \A i \in read : notes[i].owner = tk.owner

AnswerInv(q) ==
  /\ pc[q] # "answered" => answer[q].code = "none"
  /\ answer[q].code = Unauthenticated => wasDead[q]
  /\ Justified(q, answer[q].code, answer[q].read)

RequestInv(q) == WhoInv(q) /\ MatchInv(q) /\ AuthInv(q) /\ AnswerInv(q)

Inv == TypeInv /\ GrantInv /\ ShownInv /\ NoteInv /\ \A q \in Request : RequestInv(q)

\* The invariant has the properties in it.
LEMMA InvImplies ==
  Inv => TypeOK /\ AcceptedWasLive /\ RefusedWasDead /\ NotesHaveAuthority /\ ShownNeverForbidden
<1> SUFFICES ASSUME Inv
             PROVE  TypeOK /\ AcceptedWasLive /\ RefusedWasDead
                      /\ NotesHaveAuthority /\ ShownNeverForbidden
  OBVIOUS
<1>1. TypeOK
  BY DEF Inv, TypeInv
<1>2. AcceptedWasLive
  BY DEF Inv, RequestInv, AuthInv, AcceptedWasLive
<1>3. RefusedWasDead
  BY DEF Inv, RequestInv, AnswerInv, RefusedWasDead
<1>4. NotesHaveAuthority
  BY DEF Inv, RequestInv, AnswerInv, Justified, NoteInv, NotesHaveAuthority
<1>5. ASSUME NEW q \in Request, answer[q].code = "forbidden", <<req[q].cred, req[q].op>> \in shown
      PROVE  FALSE
  <2>1. PICK a \in granted : a.id = req[q].cred /\ ~ HasScope(a, ToolScope[req[q].op])
    BY <1>5 DEF Inv, RequestInv, AnswerInv, Justified
  <2>2. PICK b \in granted : b.id = req[q].cred /\ HasScope(b, ToolScope[req[q].op])
    BY <1>5 DEF Inv, ShownInv
  <2>3. a = b
    BY <2>1, <2>2 DEF Inv, GrantInv
  <2> QED
    BY <2>1, <2>2, <2>3
<1> QED
  BY <1>1, <1>2, <1>3, <1>4, <1>5 DEF ShownNeverForbidden

\* What the operator's commands and editor make of a document is a document.
LEMMA EmptyDocument == NoUsers \in Document
BY DEF NoUsers, Document, Status

LEMMA IssuedDocument ==
  ASSUME NEW doc \in Document, NEW tk \in Token
  PROVE  WithToken(doc, tk) \in Document
BY DEF WithToken, Document, Token, Status

LEMMA RevokedDocument ==
  ASSUME NEW doc \in Document, NEW id
  PROVE  WithoutToken(doc, id) \in Document
BY DEF WithoutToken, Document

LEMMA EditedDocument ==
  ASSUME NEW doc \in Document, NEW s \in Subject, NEW st \in Status
  PROVE  WithStatus(doc, s, st) \in Document
BY DEF WithStatus, Document

\* A token that has expired stays expired.
LEMMA ExpiredForGood ==
  ASSUME NEW tk \in Token, NEW t \in Nat, IsExpired(tk, t)
  PROVE  IsExpired(tk, t + 1)
<1>1. tk.grant.expires \in (0 .. MaxTime) \cup {Never}
  BY GrantAssumption DEF Token
<1> QED
  BY <1>1, BoundAssumption DEF IsExpired

\* IsExpired says when a token is no longer in force, the last instant included.
LEMMA ExpiredIsOver ==
  ASSUME NEW tk \in Token, NEW t \in Nat
  PROVE  IsExpired(tk, t) <=> ~ InForce(tk, t)
<1>1. tk.grant.expires \in (0 .. MaxTime) \cup {Never}
  BY GrantAssumption DEF Token
<1> QED
  BY <1>1, BoundAssumption DEF IsExpired, InForce

\* An issued token that has expired is not live, whatever the file says.
LEMMA ExpiredIsDead ==
  ASSUME TypeOK, GrantInv, NEW tk \in granted, NEW t \in Nat, IsExpired(tk, t)
  PROVE  ~ Live(users, tk.id, t)
<1>1. ~ InForce(tk, t)
  BY ExpiredIsOver DEF TypeOK
<1> QED
  BY <1>1 DEF GrantInv, Live

\* The server starts with no file and no request.
LEMMA InitInv == Init => Inv
<1> SUFFICES ASSUME Init PROVE Inv
  OBVIOUS
<1> USE BoundAssumption DEF Init
<1>1. TypeInv
  <2>1. users \in File
    BY EmptyDocument DEF File, NoFile
  <2>2. answer \in [Request -> [code : Outcome, tools : SUBSET Tool, read : SUBSET (1 .. MaxNotes)]]
    BY DEF NoAnswer, Outcome
  <2> QED
    BY <2>1, <2>2 DEF TypeInv, TypeOK
<1>2. GrantInv /\ ShownInv /\ NoteInv
  BY DEF GrantInv, ShownInv, NoteInv, NoFile, NoUsers
<1>3. ASSUME NEW q \in Request PROVE RequestInv(q)
  <2>1. WhoInv(q) /\ MatchInv(q) /\ AuthInv(q)
    BY DEF WhoInv, MatchInv, AuthInv
  <2>2. AnswerInv(q)
    BY DEF AnswerInv, Justified, NoAnswer, Unauthenticated
  <2> QED
    BY <2>1, <2>2 DEF RequestInv
<1> QED
  BY <1>1, <1>2, <1>3 DEF Inv

-----------------------------------------------------------------------------
(* What a step does to the requests it is not about, and what an answer     *)
(* takes.                                                                   *)

\* What was so of the credential stays so until the request is done.
LEMMA WitnessGrows ==
  ASSUME Witness, NEW u \in Request, pc'[u] # "idle"
  PROVE  /\ wasLive'[u] = (wasLive[u] \/ Live(users', req'[u].cred, now'))
         /\ wasDead'[u] = (wasDead[u] \/ ~ Live(users', req'[u].cred, now'))
BY DEF Witness

\* A request that a step leaves where it was keeps its invariant, while credentials are
\* issued, notes are added and time passes.
LEMMA Undisturbed ==
  ASSUME TypeInv, Witness, NEW u \in Request, RequestInv(u),
         pc'[u] = pc[u], req'[u] = req[u], match'[u] = match[u],
         principal'[u] = principal[u], answer'[u] = answer[u],
         granted \subseteq granted', now' \in {now, now + 1},
         DOMAIN notes \subseteq DOMAIN notes',
         \A i \in DOMAIN notes : notes'[i] = notes[i]
  PROVE  RequestInv(u)'
<1>1. WhoInv(u)'
  BY DEF RequestInv, WhoInv
<1>2. pc[u] # "idle" => (wasLive[u] => wasLive'[u]) /\ (wasDead[u] => wasDead'[u])
  BY WitnessGrows
<1>3. MatchInv(u)'
  <2> SUFFICES ASSUME pc[u] = "matched", NEW m \in match[u]
               PROVE  /\ ~ m.enabled => wasDead'[u]
                      /\ m.enabled => wasLive'[u] \/ IsExpired(m.token, now')
    BY DEF MatchInv
  <2>1. (~ m.enabled => wasDead[u]) /\ (m.enabled => wasLive[u] \/ IsExpired(m.token, now))
    BY DEF RequestInv, MatchInv
  <2>2. m.token \in Token /\ now \in Nat
    BY BoundAssumption DEF TypeInv, TypeOK, Match
  <2>3. IsExpired(m.token, now) => IsExpired(m.token, now')
    BY <2>2, ExpiredForGood
  <2> QED
    BY <1>2, <2>1, <2>3
<1>4. AuthInv(u)'
  BY <1>2 DEF RequestInv, AuthInv
<1>5. AnswerInv(u)'
  <2>1. (pc[u] # "answered" => answer[u].code = "none")'
    BY DEF RequestInv, AnswerInv
  <2>2. (answer[u].code = Unauthenticated => wasDead[u])'
    <3> SUFFICES ASSUME answer[u].code = Unauthenticated PROVE wasDead'[u]
      OBVIOUS
    <3>1. pc[u] = "answered" /\ wasDead[u]
      BY DEF RequestInv, AnswerInv, Unauthenticated
    <3> QED
      BY <3>1, <1>2
  <2>3. Justified(u, answer[u].code, answer[u].read)'
    <3>1. Justified(u, answer[u].code, answer[u].read)
      BY DEF RequestInv, AnswerInv
    <3> QED
      BY <3>1, <2>2 DEF Justified
  <2> QED
    BY <2>1, <2>2, <2>3 DEF AnswerInv
<1> QED
  BY <1>1, <1>3, <1>4, <1>5 DEF RequestInv

\* A step of one request that adds no note leaves the others alone.
LEMMA OthersUndisturbed ==
  ASSUME Inv, Witness, NEW q \in Request,
         \A u \in Request \ {q} :
           /\ pc'[u] = pc[u] /\ req'[u] = req[u] /\ match'[u] = match[u]
           /\ principal'[u] = principal[u] /\ answer'[u] = answer[u],
         UNCHANGED adminVars,
         DOMAIN notes \subseteq DOMAIN notes', \A i \in DOMAIN notes : notes'[i] = notes[i]
  PROVE  \A u \in Request \ {q} : RequestInv(u)'
<1> SUFFICES ASSUME NEW u \in Request \ {q} PROVE RequestInv(u)'
  OBVIOUS
<1>1. granted \subseteq granted' /\ now' \in {now, now + 1}
  BY DEF adminVars
<1> QED
  BY <1>1, Undisturbed DEF Inv

\* An answer for which there is a reason keeps the invariant of the requests, and the types.
LEMMA Answered ==
  ASSUME Inv, Witness, NEW q \in Request, NEW from, NEW code \in Outcome, NEW tools \in SUBSET Tool,
         NEW read \in SUBSET (1 .. MaxNotes),
         AnswersWith(q, from, code, tools, read),
         DOMAIN notes \subseteq DOMAIN notes', \A i \in DOMAIN notes : notes'[i] = notes[i],
         Justified(q, code, read)
  PROVE  /\ \A u \in Request : RequestInv(u)'
         /\ pc' \in [Request -> {"idle", "received", "matched", "authenticated",
                                 "authorized", "answered"}]
         /\ answer' \in [Request -> [code : Outcome, tools : SUBSET Tool,
                                     read : SUBSET (1 .. MaxNotes)]]
<1>0. pc \in [Request -> {"idle", "received", "matched", "authenticated",
                          "authorized", "answered"}]
      /\ answer \in [Request -> [code : Outcome, tools : SUBSET Tool,
                                 read : SUBSET (1 .. MaxNotes)]]
  BY DEF Inv, TypeInv, TypeOK
<1> DEFINE a == [code |-> code, tools |-> tools, read |-> read]
<1>1. pc' = [pc EXCEPT ![q] = "answered"] /\ answer' = [answer EXCEPT ![q] = a]
      /\ UNCHANGED <<adminVars, req, match, principal>>
  BY DEF AnswersWith, Step
<1>2. a \in [code : Outcome, tools : SUBSET Tool, read : SUBSET (1 .. MaxNotes)]
      /\ a.code = code /\ a.read = read
  OBVIOUS
<1> HIDE DEF a
<1>3. pc'[q] = "answered" /\ answer'[q] = a
      /\ \A u \in Request \ {q} : pc'[u] = pc[u] /\ answer'[u] = answer[u]
  BY <1>0, <1>1
<1>4. \A u \in Request \ {q} : RequestInv(u)'
  <2>1. \A u \in Request \ {q} :
           /\ pc'[u] = pc[u] /\ req'[u] = req[u] /\ match'[u] = match[u]
           /\ principal'[u] = principal[u] /\ answer'[u] = answer[u]
    BY <1>1, <1>3
  <2> QED
    BY <1>1, <2>1, OthersUndisturbed
<1>5. RequestInv(q)'
  <2>1. WhoInv(q)' /\ MatchInv(q)' /\ AuthInv(q)'
    BY <1>1, <1>3 DEF Inv, RequestInv, WhoInv, MatchInv, AuthInv, adminVars
  <2>2. code = Unauthenticated => wasDead'[q]
    BY <1>1, <1>3, WitnessGrows DEF Justified, adminVars
  <2>3. (Justified(q, answer[q].code, answer[q].read))'
    BY <1>1, <1>2, <1>3, <2>2 DEF Justified, adminVars
  <2>4. AnswerInv(q)'
    BY <1>2, <1>3, <2>2, <2>3 DEF AnswerInv
  <2> QED
    BY <2>1, <2>4 DEF RequestInv
<1>6. pc' \in [Request -> {"idle", "received", "matched", "authenticated",
                           "authorized", "answered"}]
  BY <1>0, <1>1
<1>7. answer' \in [Request -> [code : Outcome, tools : SUBSET Tool, read : SUBSET (1 .. MaxNotes)]]
  BY <1>0, <1>1, <1>2
<1> QED
  BY <1>4, <1>5, <1>6, <1>7

\* The histories are what they are typed as.
LEMMA WitnessTyped ==
  ASSUME Witness
  PROVE  wasLive' \in [Request -> BOOLEAN] /\ wasDead' \in [Request -> BOOLEAN]
<1>1. \A q \in Request : (pc'[q] # "idle" /\ (wasLive[q] \/ Live(users', req'[q].cred, now'))) \in BOOLEAN
  OBVIOUS
<1>2. \A q \in Request : (pc'[q] # "idle" /\ (wasDead[q] \/ ~ Live(users', req'[q].cred, now'))) \in BOOLEAN
  OBVIOUS
<1> QED
  BY <1>1, <1>2, Zenon DEF Witness

\* What the operator did before is typed as before.
LEMMA AdminTyped ==
  ASSUME Inv, UNCHANGED adminVars
  PROVE  /\ GrantInv'
         /\ (users \in File /\ now \in 0 .. MaxTime /\ granted \subseteq Token)'
         /\ (slips \in 0 .. MaxSlip /\ restarts \in 0 .. MaxRestart)'
<1>1. TypeOK /\ GrantInv
  BY DEF Inv, TypeInv
<1>2. GrantInv'
  BY <1>1 DEF GrantInv, adminVars
<1>3. (users \in File /\ now \in 0 .. MaxTime /\ granted \subseteq Token)'
  BY <1>1 DEF TypeOK, adminVars
<1>4. (slips \in 0 .. MaxSlip /\ restarts \in 0 .. MaxRestart)'
  BY <1>1 DEF TypeOK, adminVars
<1> QED
  BY <1>2, <1>3, <1>4

\* An answer for which there is a reason keeps the invariant, when what it does to
\* sessions, notes and lists is in order.
LEMMA AnswerKeepsInv ==
  ASSUME Inv, Witness, NEW q \in Request, NEW from, NEW code \in Outcome, NEW tools \in SUBSET Tool,
         NEW read \in SUBSET (1 .. MaxNotes),
         AnswersWith(q, from, code, tools, read),
         DOMAIN notes \subseteq DOMAIN notes', \A i \in DOMAIN notes : notes'[i] = notes[i],
         Justified(q, code, read),
         sessions' \subseteq Subject, notes' \in Seq(Note), Len(notes') <= MaxNotes, NoteInv',
         shown' \subseteq TokenId \X Tool, ShownInv'
  PROVE  Inv'
<1>1. /\ \A u \in Request : RequestInv(u)'
      /\ pc' \in [Request -> {"idle", "received", "matched", "authenticated",
                              "authorized", "answered"}]
      /\ answer' \in [Request -> [code : Outcome, tools : SUBSET Tool,
                                  read : SUBSET (1 .. MaxNotes)]]
  BY Answered
<1>2. UNCHANGED <<adminVars, req, match, principal>>
  BY DEF AnswersWith
<1>3. GrantInv' /\ (users \in File /\ now \in 0 .. MaxTime /\ granted \subseteq Token)'
      /\ (slips \in 0 .. MaxSlip /\ restarts \in 0 .. MaxRestart)'
  BY <1>2, AdminTyped
<1>4. /\ req' \in [Request -> RequestData \cup {NoRequest}]
      /\ (\A u \in Request : match[u] = {} \/ \E m \in Match : match[u] = {m})'
      /\ (\A u \in Request : principal[u] = {} \/ \E tk \in Token : principal[u] = {tk})'
      /\ (match = [u \in Request |-> match[u]])' /\ (principal = [u \in Request |-> principal[u]])'
  BY <1>2 DEF Inv, TypeInv, TypeOK
<1>5. TypeInv'
  BY <1>1, <1>3, <1>4, WitnessTyped DEF TypeInv, TypeOK
<1> QED
  BY <1>1, <1>3, <1>5 DEF Inv

\* The same for an answer that does nothing else.
LEMMA PlainAnswerKeepsInv ==
  ASSUME Inv, Witness, NEW q \in Request, NEW from, NEW code \in Outcome,
         Answers(q, from, code), UNCHANGED <<sessions, notes, shown>>,
         Justified(q, code, {})
  PROVE  Inv'
<1>1. UNCHANGED adminVars
  BY DEF Answers, AnswersWith
<1>2. NoteInv' /\ ShownInv'
  BY <1>1 DEF Inv, NoteInv, ShownInv, adminVars
<1>3. sessions' \subseteq Subject /\ notes' \in Seq(Note) /\ Len(notes') <= MaxNotes
      /\ shown' \subseteq TokenId \X Tool
  BY DEF Inv, TypeInv, TypeOK
<1> QED
  BY <1>2, <1>3, AnswerKeepsInv DEF Answers

\* A step that only moves a request on, to what a lookup found or who it was found to be,
\* keeps the invariant when it keeps the request's own.
LEMMA MoveKeepsInv ==
  ASSUME Inv, Witness, NEW q \in Request,
         NEW to \in {"received", "matched", "authenticated", "authorized"},
         NEW r \in RequestData \cup {NoRequest}, NEW ms, NEW tks,
         ms = {} \/ \E m \in Match : ms = {m}, tks = {} \/ \E tk \in Token : tks = {tk},
         pc' = [pc EXCEPT ![q] = to], req' = [req EXCEPT ![q] = r],
         match' = [match EXCEPT ![q] = ms], principal' = [principal EXCEPT ![q] = tks],
         UNCHANGED <<adminVars, sessions, notes, answer, shown>>,
         RequestInv(q)'
  PROVE  Inv'
<1>1. /\ TypeOK /\ match = [u \in Request |-> match[u]]
      /\ principal = [u \in Request |-> principal[u]]
  BY DEF Inv, TypeInv
<1>2. \A u \in Request \ {q} : RequestInv(u)'
  <2>1. \A u \in Request \ {q} :
           /\ pc'[u] = pc[u] /\ req'[u] = req[u] /\ match'[u] = match[u]
           /\ principal'[u] = principal[u] /\ answer'[u] = answer[u]
    BY <1>1 DEF TypeOK
  <2> QED
    BY <2>1, OthersUndisturbed
<1>3. GrantInv' /\ (users \in File /\ now \in 0 .. MaxTime /\ granted \subseteq Token)'
      /\ (slips \in 0 .. MaxSlip /\ restarts \in 0 .. MaxRestart)'
  BY AdminTyped
<1>4. NoteInv' /\ ShownInv'
  BY DEF Inv, NoteInv, ShownInv, adminVars
<1>5. /\ (sessions \subseteq Subject)' /\ (notes \in Seq(Note))' /\ (Len(notes) <= MaxNotes)'
      /\ (shown \subseteq TokenId \X Tool)'
      /\ (answer \in [Request -> [code : Outcome, tools : SUBSET Tool,
                                  read : SUBSET (1 .. MaxNotes)]])'
  BY <1>1 DEF TypeOK
<1>6. pc' \in [Request -> {"idle", "received", "matched", "authenticated",
                           "authorized", "answered"}]
      /\ req' \in [Request -> RequestData \cup {NoRequest}]
  BY <1>1 DEF TypeOK
<1>7. (match = [u \in Request |-> match[u]])'
      /\ (\A u \in Request : match[u] = {} \/ \E m \in Match : match[u] = {m})'
  BY <1>1 DEF TypeOK
<1>8. (principal = [u \in Request |-> principal[u]])'
      /\ (\A u \in Request : principal[u] = {} \/ \E tk \in Token : principal[u] = {tk})'
  BY <1>1 DEF TypeOK
<1>9. TypeInv'
  BY <1>3, <1>5, <1>6, <1>7, <1>8, WitnessTyped DEF TypeInv, TypeOK
<1> QED
  BY <1>2, <1>3, <1>4, <1>9 DEF Inv

-----------------------------------------------------------------------------
(* The actions of a request.                                                *)

\* A request arrives: nothing is known of it.
LEMMA ReceiveKeepsInv ==
  ASSUME Inv, Witness, NEW q \in Request, NEW r \in RequestData, Receive(q, r)
  PROVE  Inv'
<1> USE DEF Receive, Step
<1>1. pc[q] = "idle" /\ match[q] = {} /\ principal[q] = {} /\ answer[q].code = "none"
  BY DEF Inv, RequestInv, WhoInv, AnswerInv
<1>2. match' = [match EXCEPT ![q] = {}] /\ principal' = [principal EXCEPT ![q] = {}]
  BY <1>1 DEF Inv, TypeInv
<1>3. pc'[q] = "received" /\ req'[q] = r
  BY DEF Inv, TypeInv, TypeOK
<1>4. RequestInv(q)'
  <2>1. WhoInv(q)' /\ MatchInv(q)' /\ AuthInv(q)'
    BY <1>1, <1>3 DEF WhoInv, MatchInv, AuthInv
  <2>2. AnswerInv(q)'
    BY <1>1, <1>3 DEF AnswerInv, Justified, Unauthenticated
  <2> QED
    BY <2>1, <2>2 DEF RequestInv
<1> QED
  BY <1>2, <1>4, MoveKeepsInv

\* The lookup finds the one token with this id: it is live, or its user is not enabled,
\* or it has expired.
LEMMA LookupFindsKeepsInv ==
  ASSUME Inv, Witness, NEW q \in Request, LookupFinds(q)
  PROVE  Inv'
<1>0. TypeOK /\ match = [u \in Request |-> match[u]] /\ principal = [u \in Request |-> principal[u]]
  BY DEF Inv, TypeInv
<1>1. PICK tk \in users.doc.tokens :
        /\ tk.id = req[q].cred
        /\ match' = [match EXCEPT ![q] =
                       {[token |-> tk, enabled |-> users.doc.status[tk.owner] = "enabled"]}]
  BY DEF LookupFinds
<1> DEFINE m == [token |-> tk, enabled |-> users.doc.status[tk.owner] = "enabled"]
<1>2. /\ pc[q] = "received" /\ pc' = [pc EXCEPT ![q] = "matched"]
      /\ UNCHANGED <<adminVars, sessions, notes, req, principal, answer, shown>>
  BY DEF LookupFinds, Step
<1>3. tk \in granted /\ tk \in Token
  BY <1>0 DEF Inv, GrantInv, TypeOK
<1>4. m \in Match
  BY <1>3 DEF Match
<1>5. m.token = tk /\ (m.enabled <=> users.doc.status[tk.owner] = "enabled")
  OBVIOUS
<1>6. \A other \in users.doc.tokens : other.id = req[q].cred => other = tk
  BY <1>1 DEF Inv, GrantInv
<1>7. /\ m.enabled => Live(users, req[q].cred, now) \/ IsExpired(tk, now)
      /\ ~ m.enabled => ~ Live(users, req[q].cred, now)
  <2>1. now \in Nat
    BY <1>0, BoundAssumption DEF TypeOK
  <2>2. IsExpired(tk, now) <=> ~ InForce(tk, now)
    BY <1>3, <2>1, ExpiredIsOver
  <2> QED
    BY <1>1, <1>5, <1>6, <2>2 DEF Live
<1> HIDE DEF m
<1>8. pc'[q] = "matched" /\ match'[q] = {m} /\ req'[q] = req[q] /\ principal'[q] = principal[q]
      /\ answer'[q] = answer[q] /\ users' = users /\ now' = now /\ granted' = granted
  BY <1>0, <1>1, <1>2 DEF TypeOK, adminVars, m
<1>9. RequestInv(q)'
  <2>1. WhoInv(q)'
    BY <1>1, <1>3, <1>5, <1>8 DEF Inv, RequestInv, WhoInv
  <2>2. MatchInv(q)'
    BY <1>5, <1>7, <1>8, WitnessGrows DEF MatchInv
  <2>3. AuthInv(q)'
    BY <1>8 DEF AuthInv
  <2>4. answer[q].code = "none"
    BY <1>2 DEF Inv, RequestInv, AnswerInv
  <2>5. AnswerInv(q)'
    BY <1>8, <2>4 DEF AnswerInv, Justified, Unauthenticated
  <2> QED
    BY <2>1, <2>2, <2>3, <2>5 DEF RequestInv
<1>10. req' = [req EXCEPT ![q] = req[q]] /\ req[q] \in RequestData \cup {NoRequest}
       /\ principal' = [principal EXCEPT ![q] = principal[q]]
       /\ (principal[q] = {} \/ \E t \in Token : principal[q] = {t})
  BY <1>0, <1>2 DEF TypeOK
<1>11. match' = [match EXCEPT ![q] = {m}]
  BY <1>1 DEF m
<1> QED
  BY <1>2, <1>4, <1>9, <1>10, <1>11, MoveKeepsInv

\* The token that is accepted had not expired, and so it was live at the lookup.
LEMMA AcceptKeepsInv ==
  ASSUME Inv, Witness, NEW q \in Request, Accept(q)
  PROVE  Inv'
<1>0. TypeOK /\ match = [u \in Request |-> match[u]] /\ principal = [u \in Request |-> principal[u]]
  BY DEF Inv, TypeInv
<1>1. PICK m \in match[q] :
        /\ m.enabled /\ ~ IsExpired(m.token, now)
        /\ principal' = [principal EXCEPT ![q] = {m.token}]
  BY DEF Accept
<1>2. /\ pc[q] = "matched" /\ pc' = [pc EXCEPT ![q] = "authenticated"]
      /\ UNCHANGED <<adminVars, sessions, notes, req, match, answer, shown>>
  BY DEF Accept, Step
<1>3. m.token \in Token /\ m.token \in granted /\ m.token.id = req[q].cred
  BY <1>0 DEF Inv, RequestInv, WhoInv, TypeOK, Match
<1>4. wasLive[q] /\ answer[q].code = "none"
  BY <1>1, <1>2 DEF Inv, RequestInv, MatchInv, AnswerInv
<1>5. pc'[q] = "authenticated" /\ match'[q] = match[q] /\ req'[q] = req[q]
      /\ principal'[q] = {m.token} /\ answer'[q] = answer[q] /\ granted' = granted
  BY <1>0, <1>1, <1>2 DEF TypeOK, adminVars
<1>6. RequestInv(q)'
  <2>1. WhoInv(q)' /\ MatchInv(q)'
    BY <1>3, <1>5 DEF Inv, RequestInv, WhoInv, MatchInv
  <2>2. AuthInv(q)'
    BY <1>4, <1>5, WitnessGrows DEF AuthInv
  <2>3. AnswerInv(q)'
    BY <1>4, <1>5 DEF AnswerInv, Justified, Unauthenticated
  <2> QED
    BY <2>1, <2>2, <2>3 DEF RequestInv
<1>7. req' = [req EXCEPT ![q] = req[q]] /\ req[q] \in RequestData \cup {NoRequest}
       /\ match' = [match EXCEPT ![q] = match[q]]
       /\ (match[q] = {} \/ \E t \in Match : match[q] = {t})
  BY <1>0, <1>2 DEF TypeOK
<1> QED
  BY <1>1, <1>2, <1>3, <1>6, <1>7, MoveKeepsInv

\* A call is authorized for its principal.
LEMMA CallAllowedKeepsInv ==
  ASSUME Inv, Witness, NEW q \in Request, CallAllowed(q)
  PROVE  Inv'
<1>0. TypeOK /\ match = [u \in Request |-> match[u]] /\ principal = [u \in Request |-> principal[u]]
  BY DEF Inv, TypeInv
<1>1. PICK tk \in principal[q] : HasScope(tk, ToolScope[req[q].op])
  BY DEF CallAllowed
<1>2. /\ pc[q] = "authenticated" /\ pc' = [pc EXCEPT ![q] = "authorized"]
      /\ UNCHANGED <<adminVars, sessions, notes, req, match, principal, answer, shown>>
  BY DEF CallAllowed, Step
<1>3. principal[q] = {tk} /\ req[q].op \in Tool
  BY <1>0 DEF TypeOK, CallAllowed
<1>4. pc'[q] = "authorized" /\ wasLive[q] /\ answer[q].code = "none"
  BY <1>0, <1>2 DEF Inv, RequestInv, AuthInv, AnswerInv, TypeOK
<1>5. RequestInv(q)'
  <2>1. WhoInv(q)' /\ MatchInv(q)'
    BY <1>2, <1>4 DEF Inv, RequestInv, WhoInv, MatchInv, adminVars
  <2>2. AuthInv(q)'
    BY <1>1, <1>2, <1>3, <1>4, WitnessGrows DEF AuthInv
  <2>3. AnswerInv(q)'
    BY <1>2, <1>4 DEF AnswerInv, Justified, Unauthenticated
  <2> QED
    BY <2>1, <2>2, <2>3 DEF RequestInv
<1>6. /\ req' = [req EXCEPT ![q] = req[q]] /\ req[q] \in RequestData \cup {NoRequest}
      /\ match' = [match EXCEPT ![q] = match[q]]
      /\ (match[q] = {} \/ \E m \in Match : match[q] = {m})
      /\ principal' = [principal EXCEPT ![q] = principal[q]]
      /\ (principal[q] = {} \/ \E t \in Token : principal[q] = {t})
  BY <1>0, <1>2 DEF TypeOK
<1> QED
  BY <1>2, <1>5, <1>6, MoveKeepsInv

\* A 401 has its reason: the credential was no good now, or at the lookup.
LEMMA RefusalKeepsInv ==
  ASSUME Inv, Witness, NEW q \in Request,
         RefuseFormat(q) \/ LookupFindsNothing(q) \/ RefuseDisabled(q)
           \/ RefuseExpired(q) \/ MiddlewareExpires(q)
  PROVE  Inv'
<1>0. TypeOK /\ GrantInv /\ WhoInv(q) /\ MatchInv(q)
  BY DEF Inv, TypeInv, RequestInv
<1>1. Unauthenticated \in Outcome
  BY DEF Outcome
<1>2. SUFFICES wasDead[q] \/ ~ Live(users, req[q].cred, now)
  <2>1. ASSUME wasDead[q] \/ ~ Live(users, req[q].cred, now)
        PROVE  Justified(q, Unauthenticated, {})
    BY <2>1 DEF Justified, Unauthenticated
  <2>2. \E from : Answers(q, from, Unauthenticated)
    BY DEF RefuseFormat, LookupFindsNothing, RefuseDisabled, RefuseExpired, MiddlewareExpires
  <2>3. UNCHANGED <<sessions, notes, shown>>
    BY DEF RefuseFormat, LookupFindsNothing, RefuseDisabled, RefuseExpired, MiddlewareExpires
  <2> QED
    BY <1>1, <2>1, <2>2, <2>3, PlainAnswerKeepsInv
<1>3. CASE RefuseFormat(q)
  <2>1. \A tk \in users.doc.tokens : tk.id \in TokenId
    BY <1>0 DEF TypeOK, File, Document, Token
  <2> QED
    BY <1>3, <2>1, DistinctAssumption DEF RefuseFormat, Live
<1>4. CASE LookupFindsNothing(q)
  BY <1>4 DEF LookupFindsNothing, Live, Ids
<1>5. CASE RefuseDisabled(q)
  BY <1>0, <1>5 DEF RefuseDisabled, MatchInv, Answers, AnswersWith, Step
<1>9. now \in Nat
  BY <1>0, BoundAssumption DEF TypeOK
<1>6. CASE RefuseExpired(q)
  BY <1>0, <1>6, <1>9, ExpiredIsDead DEF RefuseExpired, WhoInv
<1>7. CASE MiddlewareExpires(q)
  BY <1>0, <1>7, <1>9, ExpiredIsDead DEF MiddlewareExpires, WhoInv
<1> QED
  BY <1>3, <1>4, <1>5, <1>6, <1>7

\* A call is forbidden for a principal without the scope.
LEMMA CallForbiddenKeepsInv ==
  ASSUME Inv, Witness, NEW q \in Request, CallForbidden(q)
  PROVE  Inv'
<1>1. PICK tk \in principal[q] : ~ HasScope(tk, ToolScope[req[q].op])
  BY DEF CallForbidden
<1>2. tk \in granted /\ tk.id = req[q].cred
  BY DEF Inv, RequestInv, WhoInv
<1>3. Justified(q, "forbidden", {}) /\ "forbidden" \in Outcome
  BY <1>1, <1>2 DEF Justified, Unauthenticated, Outcome
<1> QED
  BY <1>3, PlainAnswerKeepsInv DEF CallForbidden

\* The other answers that do nothing need no reason.
LEMMA OtherAnswersKeepInv ==
  ASSUME Inv, Witness, NEW q \in Request,
         LookupFails(q) \/ RefuseSession(q) \/ CallUnknownTool(q)
           \/ ExecuteRefuses(q) \/ ExecuteFails(q) \/ Echo(q)
  PROVE  Inv'
<1>1. ASSUME NEW from, NEW code \in Outcome \ {Unauthenticated, "forbidden"},
             Answers(q, from, code), req[q].op = "notes_list" => code # "ok",
             UNCHANGED <<sessions, notes, shown>>
      PROVE  Inv'
  <2>1. Justified(q, code, {})
    BY <1>1 DEF Justified
  <2> QED
    BY <1>1, <2>1, PlainAnswerKeepsInv
<1>2. "500" \in Outcome \ {Unauthenticated, "forbidden"}
      /\ "tool not found" \in Outcome \ {Unauthenticated, "forbidden"}
      /\ "tool failure" \in Outcome \ {Unauthenticated, "forbidden"}
      /\ "internal error" \in Outcome \ {Unauthenticated, "forbidden"}
      /\ "ok" \in Outcome \ {Unauthenticated, "forbidden"}
      /\ "403 other user" \in Outcome \ {Unauthenticated, "forbidden"}
      /\ "404 no session" \in Outcome \ {Unauthenticated, "forbidden"}
  BY DEF Outcome, Unauthenticated
<1>3. CASE LookupFails(q)
  BY <1>1, <1>2, <1>3 DEF LookupFails
<1>4. CASE RefuseSession(q)
  <2> DEFINE code == IF req[q].session \in sessions THEN "403 other user" ELSE "404 no session"
  <2>1. Answers(q, "authenticated", code) /\ UNCHANGED <<sessions, notes, shown>>
    BY <1>4 DEF RefuseSession
  <2>2. code \in Outcome \ {Unauthenticated, "forbidden"} /\ code # "ok"
    BY <1>2
  <2> HIDE DEF code
  <2> QED
    BY <1>1, <2>1, <2>2
<1>5. CASE CallUnknownTool(q)
  BY <1>1, <1>2, <1>5 DEF CallUnknownTool
<1>6. CASE ExecuteRefuses(q)
  BY <1>1, <1>2, <1>6 DEF ExecuteRefuses
<1>7. CASE ExecuteFails(q)
  BY <1>1, <1>2, <1>7 DEF ExecuteFails
<1>8. CASE Echo(q)
  BY <1>1, <1>2, <1>8 DEF Echo
<1> QED
  BY <1>3, <1>4, <1>5, <1>6, <1>7, <1>8

\* A session is opened for the subject of a token.
LEMMA OpenSessionKeepsInv ==
  ASSUME Inv, Witness, NEW q \in Request, OpenSession(q)
  PROVE  Inv'
<1>1. PICK tk \in principal[q] : sessions' = sessions \cup {tk.owner}
  BY DEF OpenSession
<1>2. tk \in Token /\ TypeOK
  BY DEF Inv, TypeInv, TypeOK
<1>3. sessions' \subseteq Subject /\ notes' \in Seq(Note) /\ Len(notes') <= MaxNotes
      /\ shown' \subseteq TokenId \X Tool
  BY <1>1, <1>2 DEF OpenSession, TypeOK, Token
<1>4. AnswersWith(q, "authenticated", "ok", {}, {}) /\ UNCHANGED <<notes, shown>>
  BY DEF OpenSession, Answers
<1>5. NoteInv' /\ ShownInv'
  BY <1>4 DEF Inv, NoteInv, ShownInv, AnswersWith, adminVars
<1>6. Justified(q, "ok", {}) /\ "ok" \in Outcome
  BY DEF Justified, OpenSession, Outcome, Unauthenticated
<1> QED
  BY <1>3, <1>4, <1>5, <1>6, AnswerKeepsInv

\* The tools that are listed are those the principal has the scopes of.
LEMMA ListToolsKeepsInv ==
  ASSUME Inv, Witness, NEW q \in Request, ListTools(q)
  PROVE  Inv'
<1>1. PICK tk \in principal[q] :
        /\ AnswersWith(q, "authenticated", "ok", AllowedTools(tk), {})
        /\ shown' = shown \cup ({tk.id} \X AllowedTools(tk))
  BY DEF ListTools
<1>2. UNCHANGED <<sessions, notes>> /\ req[q].op = "tools/list"
  BY DEF ListTools
<1>3. tk \in granted /\ tk \in Token /\ TypeOK
  BY DEF Inv, TypeInv, TypeOK, RequestInv, WhoInv
<1>4. AllowedTools(tk) \in SUBSET Tool /\ \A tool \in AllowedTools(tk) : HasScope(tk, ToolScope[tool])
  BY DEF AllowedTools
<1>5. granted' = granted
  BY <1>1 DEF AnswersWith, adminVars
<1>6. shown' \subseteq TokenId \X Tool
  BY <1>1, <1>3, <1>4 DEF TypeOK, Token
<1>7. ShownInv'
  <2> SUFFICES ASSUME NEW s \in shown'
               PROVE  \E t \in granted : t.id = s[1] /\ HasScope(t, ToolScope[s[2]])
    BY <1>5 DEF ShownInv
  <2>1. CASE s \in shown
    BY <2>1 DEF Inv, ShownInv
  <2>2. CASE s \in {tk.id} \X AllowedTools(tk)
    BY <1>3, <1>4, <2>2
  <2> QED
    BY <1>1, <2>1, <2>2
<1>8. NoteInv' /\ sessions' \subseteq Subject /\ notes' \in Seq(Note) /\ Len(notes') <= MaxNotes
  BY <1>2, <1>3, <1>5 DEF Inv, NoteInv, TypeOK
<1>9. Justified(q, "ok", {}) /\ "ok" \in Outcome
  BY <1>2 DEF Justified, Outcome, Unauthenticated
<1> QED
  BY <1>1, <1>2, <1>4, <1>6, <1>7, <1>8, <1>9, AnswerKeepsInv

\* A note is added for the owner of the write credential of the call.
LEMMA AddNoteKeepsInv ==
  ASSUME Inv, Witness, NEW q \in Request, AddNote(q)
  PROVE  Inv'
<1>1. PICK tk \in principal[q] : notes' = Append(notes, [owner |-> tk.owner, by |-> req[q].cred])
  BY DEF AddNote
<1>2. AnswersWith(q, "authorized", "ok", {}, {}) /\ req[q].op = "notes_add" /\ Len(notes) < MaxNotes
      /\ UNCHANGED <<sessions, shown>> /\ TypeOK
  BY DEF AddNote, Answers, Inv, TypeInv
<1>3. pc[q] = "authorized" /\ UNCHANGED adminVars /\ granted' = granted
  BY <1>2 DEF AnswersWith, Step, adminVars
<1>4. tk \in granted /\ tk \in Token /\ tk.id = req[q].cred /\ HasScope(tk, "notes:write")
  BY <1>2, <1>3 DEF Inv, TypeOK, RequestInv, WhoInv, AuthInv, ToolScope
<1> DEFINE n == [owner |-> tk.owner, by |-> req[q].cred]
<1>5. n \in Note /\ n.owner = tk.owner /\ n.by = tk.id
  BY <1>4 DEF Note, Token
<1> HIDE DEF n
<1>6. notes \in Seq(Note) /\ notes' = Append(notes, n)
  BY <1>1, <1>2 DEF TypeOK, n
<1>7. /\ notes' \in Seq(Note) /\ Len(notes') = Len(notes) + 1 /\ Len(notes) \in Nat
      /\ DOMAIN notes = 1 .. Len(notes) /\ DOMAIN notes' = 1 .. (Len(notes) + 1)
      /\ notes'[Len(notes) + 1] = n
      /\ \A i \in DOMAIN notes : notes'[i] = notes[i]
  BY <1>5, <1>6
<1>8. NoteInv'
  <2> SUFFICES ASSUME NEW i \in DOMAIN notes'
               PROVE  \E t \in granted : /\ t.id = notes'[i].by /\ t.owner = notes'[i].owner
                                         /\ HasScope(t, "notes:write")
    BY <1>3 DEF NoteInv
  <2>1. CASE i \in DOMAIN notes
    BY <1>7, <2>1 DEF Inv, NoteInv
  <2>2. CASE i = Len(notes) + 1
    BY <1>4, <1>5, <1>7, <2>2
  <2> QED
    BY <1>7, <2>1, <2>2
<1>9. DOMAIN notes \subseteq DOMAIN notes' /\ Len(notes') <= MaxNotes
  BY <1>2, <1>7, BoundAssumption
<1>10. sessions' \subseteq Subject /\ shown' \subseteq TokenId \X Tool /\ ShownInv'
  BY <1>2, <1>3 DEF Inv, ShownInv, TypeOK
<1>11. Justified(q, "ok", {}) /\ "ok" \in Outcome
  BY <1>2 DEF Justified, Outcome, Unauthenticated
<1> QED
  BY <1>2, <1>7, <1>8, <1>9, <1>10, <1>11, AnswerKeepsInv

\* The notes that are read are those of the principal's subject.
LEMMA ListNotesKeepsInv ==
  ASSUME Inv, Witness, NEW q \in Request, ListNotes(q)
  PROVE  Inv'
<1>1. PICK tk \in principal[q] :
        AnswersWith(q, "authorized", "ok", {}, {i \in DOMAIN notes : notes[i].owner = tk.owner})
  BY DEF ListNotes
<1> DEFINE own == {i \in DOMAIN notes : notes[i].owner = tk.owner}
<1>2. req[q].op = "notes_list" /\ UNCHANGED <<sessions, notes, shown>> /\ TypeOK
  BY DEF ListNotes, Inv, TypeInv
<1>3. pc[q] = "authorized" /\ UNCHANGED adminVars
  BY <1>1 DEF AnswersWith, Step
<1>4. tk \in granted /\ tk.id = req[q].cred /\ HasScope(tk, "notes:read")
  BY <1>2, <1>3 DEF Inv, RequestInv, WhoInv, AuthInv, ToolScope
<1>5. own \in SUBSET (1 .. MaxNotes)
  <2>1. DOMAIN notes = 1 .. Len(notes) /\ Len(notes) \in Nat /\ Len(notes) <= MaxNotes
    BY <1>2 DEF TypeOK
  <2> QED
    BY <2>1, BoundAssumption
<1>6. Justified(q, "ok", own) /\ "ok" \in Outcome
  BY <1>4 DEF Justified, Outcome, Unauthenticated
<1>7. NoteInv' /\ ShownInv'
  BY <1>2, <1>3 DEF Inv, NoteInv, ShownInv, adminVars
<1>8. sessions' \subseteq Subject /\ notes' \in Seq(Note) /\ Len(notes') <= MaxNotes
      /\ shown' \subseteq TokenId \X Tool
  BY <1>2 DEF TypeOK
<1> QED
  BY <1>1, <1>2, <1>5, <1>6, <1>7, <1>8, AnswerKeepsInv

\* The answer is sent: nothing is left of the request.
LEMMA RespondKeepsInv ==
  ASSUME Inv, Witness, NEW q \in Request, Respond(q)
  PROVE  Inv'
<1>0. TypeOK /\ match = [u \in Request |-> match[u]] /\ principal = [u \in Request |-> principal[u]]
  BY DEF Inv, TypeInv
<1>1. /\ pc' = [pc EXCEPT ![q] = "idle"] /\ req' = [req EXCEPT ![q] = NoRequest]
      /\ match' = [match EXCEPT ![q] = {}] /\ principal' = [principal EXCEPT ![q] = {}]
      /\ answer' = [answer EXCEPT ![q] = NoAnswer]
      /\ UNCHANGED <<adminVars, sessions, notes, shown>>
  BY DEF Respond, Step
<1>2. \A u \in Request \ {q} :
        /\ pc'[u] = pc[u] /\ req'[u] = req[u] /\ match'[u] = match[u]
        /\ principal'[u] = principal[u] /\ answer'[u] = answer[u]
  BY <1>0, <1>1 DEF TypeOK
<1>3. pc'[q] = "idle" /\ match'[q] = {} /\ principal'[q] = {} /\ answer'[q].code = "none"
  BY <1>0, <1>1 DEF TypeOK, NoAnswer
<1>4. \A u \in Request \ {q} : RequestInv(u)'
  BY <1>1, <1>2, OthersUndisturbed
<1>5. RequestInv(q)'
  <2>1. WhoInv(q)' /\ MatchInv(q)' /\ AuthInv(q)'
    BY <1>3 DEF WhoInv, MatchInv, AuthInv
  <2>2. AnswerInv(q)'
    BY <1>3 DEF AnswerInv, Justified, Unauthenticated
  <2> QED
    BY <2>1, <2>2 DEF RequestInv
<1>6. GrantInv' /\ (users \in File /\ now \in 0 .. MaxTime /\ granted \subseteq Token)'
      /\ (slips \in 0 .. MaxSlip /\ restarts \in 0 .. MaxRestart)'
  BY <1>1, AdminTyped
<1>7. NoteInv' /\ ShownInv'
  BY <1>1 DEF Inv, NoteInv, ShownInv, adminVars
<1>8. pc' \in [Request -> {"idle", "received", "matched", "authenticated",
                           "authorized", "answered"}]
      /\ req' \in [Request -> RequestData \cup {NoRequest}]
  BY <1>0, <1>1 DEF TypeOK
<1>9. answer' \in [Request -> [code : Outcome, tools : SUBSET Tool, read : SUBSET (1 .. MaxNotes)]]
  <2>1. NoAnswer \in [code : Outcome, tools : SUBSET Tool, read : SUBSET (1 .. MaxNotes)]
    BY DEF NoAnswer, Outcome
  <2> QED
    BY <1>0, <1>1, <2>1 DEF TypeOK
<1>10. (match = [u \in Request |-> match[u]])'
       /\ (\A u \in Request : match[u] = {} \/ \E m \in Match : match[u] = {m})'
  BY <1>0, <1>1 DEF TypeOK
<1>11. (principal = [u \in Request |-> principal[u]])'
       /\ (\A u \in Request : principal[u] = {} \/ \E tk \in Token : principal[u] = {tk})'
  BY <1>0, <1>1 DEF TypeOK
<1>12. /\ (sessions \subseteq Subject)' /\ (notes \in Seq(Note))' /\ (Len(notes) <= MaxNotes)'
       /\ (shown \subseteq TokenId \X Tool)'
  BY <1>0, <1>1 DEF TypeOK
<1>13. TypeInv'
  BY <1>6, <1>8, <1>9, <1>10, <1>11, <1>12, WitnessTyped DEF TypeInv, TypeOK
<1> QED
  BY <1>4, <1>5, <1>6, <1>7, <1>13 DEF Inv

\* A step of one request keeps the invariant.
LEMMA HandleKeepsInv ==
  ASSUME Inv, NEW q \in Request, Handle(q)
  PROVE  Inv'
<1>0. Witness
  BY DEF Handle
<1>1. CASE RefuseFormat(q) \/ LookupFindsNothing(q) \/ RefuseDisabled(q)
             \/ RefuseExpired(q) \/ MiddlewareExpires(q)
  BY <1>0, <1>1, RefusalKeepsInv
<1>2. CASE LookupFinds(q)
  BY <1>0, <1>2, LookupFindsKeepsInv
<1>3. CASE Accept(q)
  BY <1>0, <1>3, AcceptKeepsInv
<1>4. CASE LookupFails(q) \/ RefuseSession(q) \/ CallUnknownTool(q)
             \/ ExecuteRefuses(q) \/ ExecuteFails(q) \/ Echo(q)
  BY <1>0, <1>4, OtherAnswersKeepInv
<1>5. CASE OpenSession(q)
  BY <1>0, <1>5, OpenSessionKeepsInv
<1>6. CASE ListTools(q)
  BY <1>0, <1>6, ListToolsKeepsInv
<1>7. CASE CallForbidden(q)
  BY <1>0, <1>7, CallForbiddenKeepsInv
<1>8. CASE CallAllowed(q)
  BY <1>0, <1>8, CallAllowedKeepsInv
<1>9. CASE AddNote(q)
  BY <1>0, <1>9, AddNoteKeepsInv
<1>10. CASE ListNotes(q)
  BY <1>0, <1>10, ListNotesKeepsInv
<1>11. CASE Respond(q)
  BY <1>0, <1>11, RespondKeepsInv
<1> QED
  BY <1>1, <1>2, <1>3, <1>4, <1>5, <1>6, <1>7, <1>8, <1>9, <1>10, <1>11
     DEF Handle, Authenticate, Serve

-----------------------------------------------------------------------------
(* The operator, the clock, a restart.                                      *)

\* What the operator and the clock do takes nothing back from a request in flight.
LEMMA AdminKeepsInv ==
  ASSUME Inv, Witness, UNCHANGED requestVars,
         users' \in File, now' \in {now, now + 1}, now' \in 0 .. MaxTime,
         granted \subseteq granted', granted' \subseteq Token,
         slips' \in 0 .. MaxSlip, restarts' \in 0 .. MaxRestart,
         GrantInv'
  PROVE  Inv'
<1> USE DEF requestVars
<1>1. \A u \in Request : RequestInv(u)'
  BY Undisturbed DEF Inv
<1>2. NoteInv' /\ ShownInv'
  BY DEF Inv, NoteInv, ShownInv
<1>3. TypeInv'
  BY WitnessTyped DEF Inv, TypeInv, TypeOK
<1> QED
  BY <1>1, <1>2, <1>3 DEF Inv

\* Only a token whose id is new is issued.
LEMMA IssueTokenKeepsInv ==
  ASSUME Inv, Witness, NEW tk \in Token, IssueToken(tk)
  PROVE  Inv'
<1>1. TypeOK /\ GrantInv
  BY DEF Inv, TypeInv
<1>2. users.doc \in Document /\ users' = JsonFile(WithToken(users.doc, tk))
      /\ granted' = granted \cup {tk} /\ tk.id \notin {old.id : old \in granted}
      /\ UNCHANGED <<requestVars, now, slips, restarts>>
  BY <1>1 DEF IssueToken, TypeOK, File
<1>3. users' \in File
  BY <1>2, IssuedDocument DEF File, JsonFile
<1>4. GrantInv'
  BY <1>1, <1>2 DEF GrantInv, JsonFile, WithToken
<1>5. (granted \subseteq Token /\ now \in 0 .. MaxTime
       /\ slips \in 0 .. MaxSlip /\ restarts \in 0 .. MaxRestart)'
  BY <1>1, <1>2 DEF TypeOK
<1> QED
  BY <1>2, <1>3, <1>4, <1>5, AdminKeepsInv

\* A change of the file that adds no token keeps the invariant.
LEMMA EditKeepsInv ==
  ASSUME Inv, Witness, NEW f \in File, f.doc.tokens \subseteq users.doc.tokens,
         users' = f, slips' \in 0 .. MaxSlip,
         UNCHANGED <<requestVars, now, granted, restarts>>
  PROVE  Inv'
<1>1. TypeOK /\ GrantInv
  BY DEF Inv, TypeInv
<1>2. GrantInv'
  BY <1>1 DEF GrantInv
<1>3. (granted \subseteq Token /\ now \in 0 .. MaxTime /\ restarts \in 0 .. MaxRestart)'
  BY <1>1 DEF TypeOK
<1> QED
  BY <1>2, <1>3, AdminKeepsInv

\* The operator revokes, disables, enables, breaks or repairs.
LEMMA OperatorKeepsInv ==
  ASSUME Inv, Witness,
         \/ \E id \in TokenId : RevokeToken(id)
         \/ \E subject \in Subject : Disable(subject) \/ Enable(subject)
         \/ Break \/ Repair
  PROVE  Inv'
<1>0. TypeOK
  BY DEF Inv, TypeInv
<1>1. TypeOK /\ users.doc \in Document /\ slips \in 0 .. MaxSlip /\ slips \in Nat
  BY <1>0, BoundAssumption DEF TypeOK, File
<1>2. slips < MaxSlip => slips + 1 \in 0 .. MaxSlip
  BY <1>1, BoundAssumption
<1>3. CASE \E id \in TokenId : RevokeToken(id)
  <2>1. PICK id \in TokenId : RevokeToken(id)
    BY <1>3
  <2>2. JsonFile(WithoutToken(users.doc, id)) \in File
    BY <1>1, RevokedDocument DEF File, JsonFile
  <2>3. JsonFile(WithoutToken(users.doc, id)).doc.tokens \subseteq users.doc.tokens
    BY DEF JsonFile, WithoutToken
  <2>4. users' = JsonFile(WithoutToken(users.doc, id)) /\ slips' = slips
        /\ UNCHANGED <<requestVars, now, granted, restarts>>
    BY <2>1 DEF RevokeToken
  <2> QED
    BY <1>1, <2>2, <2>3, <2>4, EditKeepsInv
<1>4. CASE \E subject \in Subject : Disable(subject) \/ Enable(subject)
  <2>1. PICK subject \in Subject : Disable(subject) \/ Enable(subject)
    BY <1>4
  <2>2. PICK st \in {"enabled", "disabled"} : Edit(JsonFile(WithStatus(users.doc, subject, st)))
    BY <2>1 DEF Disable, Enable
  <2>3. slips' \in 0 .. MaxSlip
    BY <1>1, <1>2, <2>1 DEF Disable, Enable
  <2>4. JsonFile(WithStatus(users.doc, subject, st)) \in File
    BY <1>1, EditedDocument DEF File, JsonFile, Status
  <2>5. JsonFile(WithStatus(users.doc, subject, st)).doc.tokens \subseteq users.doc.tokens
    BY DEF JsonFile, WithStatus
  <2> QED
    BY <2>2, <2>3, <2>4, <2>5, EditKeepsInv DEF Edit
<1>5. CASE Break \/ Repair
  <2>1. PICK form \in {"json", "malformed"} : Edit([form |-> form, doc |-> users.doc])
    BY <1>5 DEF Break, Repair, JsonFile
  <2>2. slips' \in 0 .. MaxSlip
    BY <1>1, <1>2, <1>5 DEF Break, Repair
  <2>3. [form |-> form, doc |-> users.doc] \in File
    BY <1>1 DEF File
  <2> QED
    BY <2>1, <2>2, <2>3, EditKeepsInv DEF Edit
<1> QED
  BY <1>3, <1>4, <1>5

\* Time passes.
LEMMA TickKeepsInv ==
  ASSUME Inv, Witness, Tick
  PROVE  Inv'
<1>1. TypeOK /\ GrantInv /\ now \in Nat
  <2>1. TypeOK /\ GrantInv
    BY DEF Inv, TypeInv
  <2> QED
    BY <2>1, BoundAssumption DEF TypeOK
<1>2. GrantInv'
  BY <1>1 DEF Tick, GrantInv
<1>3. (users \in File /\ granted \subseteq Token
       /\ slips \in 0 .. MaxSlip /\ restarts \in 0 .. MaxRestart)'
  BY <1>1 DEF Tick, TypeOK
<1>4. now' = now + 1 /\ now' \in 0 .. MaxTime
  BY <1>1, BoundAssumption DEF Tick
<1> QED
  BY <1>2, <1>3, <1>4, AdminKeepsInv DEF Tick

\* A restart leaves no request.
LEMMA RestartKeepsInv ==
  ASSUME Inv, Witness, Restart
  PROVE  Inv'
<1>1. TypeOK /\ GrantInv /\ NoteInv /\ ShownInv
  BY DEF Inv, TypeInv
<1>2. GrantInv' /\ NoteInv' /\ ShownInv'
  BY <1>1 DEF Restart, GrantInv, NoteInv, ShownInv
<1>3. \A u \in Request : RequestInv(u)'
  <2> SUFFICES ASSUME NEW u \in Request PROVE RequestInv(u)'
    OBVIOUS
  <2>1. pc'[u] = "idle" /\ match'[u] = {} /\ principal'[u] = {} /\ answer'[u].code = "none"
    BY DEF Restart, NoAnswer
  <2>2. WhoInv(u)' /\ MatchInv(u)' /\ AuthInv(u)'
    BY <2>1 DEF WhoInv, MatchInv, AuthInv
  <2>3. AnswerInv(u)'
    BY <2>1 DEF AnswerInv, Justified, Unauthenticated
  <2> QED
    BY <2>2, <2>3 DEF RequestInv
<1>4. restarts' \in 0 .. MaxRestart
  BY <1>1, BoundAssumption DEF Restart, TypeOK
<1>5. (users \in File /\ now \in 0 .. MaxTime /\ granted \subseteq Token /\ slips \in 0 .. MaxSlip
       /\ notes \in Seq(Note) /\ Len(notes) <= MaxNotes /\ shown \subseteq TokenId \X Tool)'
  BY <1>1 DEF Restart, TypeOK
<1>6. answer' \in [Request -> [code : Outcome, tools : SUBSET Tool, read : SUBSET (1 .. MaxNotes)]]
  BY DEF Restart, NoAnswer, Outcome
<1>7. /\ sessions' \subseteq Subject
      /\ pc' \in [Request -> {"idle", "received", "matched", "authenticated",
                              "authorized", "answered"}]
      /\ req' \in [Request -> RequestData \cup {NoRequest}]
  BY DEF Restart
<1>8. /\ match' = [u \in Request |-> match'[u]] /\ principal' = [u \in Request |-> principal'[u]]
      /\ \A u \in Request : match'[u] = {} /\ principal'[u] = {}
  BY DEF Restart
<1>9. TypeInv'
  BY <1>4, <1>5, <1>6, <1>7, <1>8, WitnessTyped DEF TypeInv, TypeOK
<1> QED
  BY <1>2, <1>3, <1>9 DEF Inv

-----------------------------------------------------------------------------
(* The theorems.                                                            *)

\* Every step keeps the invariant.
LEMMA NextInv == Inv /\ [Next]_vars => Inv'
<1> SUFFICES ASSUME Inv, [Next]_vars PROVE Inv'
  OBVIOUS
<1>1. ASSUME NEW q \in Request, NEW r \in RequestData, Receive(q, r), Witness
      PROVE  Inv'
  BY <1>1, ReceiveKeepsInv
<1>2. ASSUME NEW q \in Request, Handle(q)
      PROVE  Inv'
  BY <1>2, HandleKeepsInv
<1>3. CASE Admin /\ Witness
  BY <1>3, IssueTokenKeepsInv, OperatorKeepsInv, TickKeepsInv, RestartKeepsInv DEF Admin
<1>4. CASE UNCHANGED vars
  <2> USE <1>4 DEF vars, adminVars
  <2>1. TypeInv'
    BY DEF Inv, TypeInv, TypeOK
  <2>2. GrantInv' /\ ShownInv' /\ NoteInv'
    BY DEF Inv, GrantInv, ShownInv, NoteInv
  <2>3. ASSUME NEW q \in Request PROVE RequestInv(q)'
    <3>1. RequestInv(q)
      BY DEF Inv
    <3> QED
      BY <3>1 DEF RequestInv, WhoInv, MatchInv, AuthInv, AnswerInv, Justified, Live
  <2> QED
    BY <2>1, <2>2, <2>3 DEF Inv
<1> QED
  BY <1>1, <1>2, <1>3, <1>4 DEF Next

\* The invariant holds in every reachable state.
LEMMA InvHolds == Spec => []Inv
<1> QED
  BY InitInv, NextInv, PTL DEF Spec

\* Every variable has its type in every reachable state.
THEOREM TypeCorrect == Spec => []TypeOK
<1>1. Inv => TypeOK
  BY InvImplies
<1> QED
  BY <1>1, InvHolds, PTL

\* RequireAuth (Verifier over Authenticate) lets nobody past whose credential was no good
\* all the while since the request arrived, whatever the operator does between the
\* reading of the file and the reading of the clock.
THEOREM AcceptedOnlyLive == Spec => []AcceptedWasLive
<1>1. Inv => AcceptedWasLive
  BY InvImplies
<1> QED
  BY <1>1, InvHolds, PTL

\* RequireAuth answers 401 to no credential that was good all the while.
THEOREM RefusedOnlyDead == Spec => []RefusedWasDead
<1>1. Inv => RefusedWasDead
  BY InvImplies
<1> QED
  BY <1>1, InvHolds, PTL

\* The notes tools store a note only for the subject of a write credential, and read
\* only the notes of the subject of a read credential.
THEOREM NotesNeedAuthority == Spec => []NotesHaveAuthority
<1>1. Inv => NotesHaveAuthority
  BY InvImplies
<1> QED
  BY <1>1, InvHolds, PTL

\* filterListedTools and CallTool decide alike: what was listed for a credential is
\* never forbidden to it.
THEOREM OfferedIsAllowed == Spec => []ShownNeverForbidden
<1>1. Inv => ShownNeverForbidden
  BY InvImplies
<1> QED
  BY <1>1, InvHolds, PTL

===============================================================================
