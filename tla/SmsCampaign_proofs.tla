-------------------------- MODULE SmsCampaign_proofs --------------------------
(***************************************************************************)
(* Theorems of SmsCampaign, for any numbers of managers, recipients, texts *)
(* and POSTs.                                                              *)
(***************************************************************************)
EXTENDS SmsCampaign, FiniteSetTheorems, TLAPS

Running(p) == p \in DOMAIN post /\ post[p].at \in {"send", "count"}

\* A POST is of a preview it agrees with, and is sending under a claim.
PostsAgree ==
  \A p \in DOMAIN post :
    LET v == preview[post[p].token] IN
    /\ v \in Preview
    /\ post[p].text = v.text /\ post[p].by = v.by
    /\ post[p].todo \subseteq v.to
    /\ post[p].due = {} \/ \E row \in Row : post[p].due = {row}
    /\ post[p].at = "count" => post[p].due # {}
    /\ post[p].at = "claim" => post[p].due = {} /\ post[p].todo = v.to
    /\ Running(p) => campaign[post[p].token] # NoCampaign

\* What was handed over was so by a POST with the claim, for its preview.
HandedUnderClaim ==
  \A h \in handed :
    /\ h.post \in DOMAIN post /\ post[h.post].at # "claim"
    /\ campaign[post[h.post].token] # NoCampaign
    /\ h.to \in preview[post[h.post].token].to

Involved(p) == Running(p) \/ \E h \in handed : h.post = p

\* One POST of a token has the claim.
OneClaim ==
  \A p, q \in DOMAIN post :
    Involved(p) /\ Involved(q) /\ post[p].token = post[q].token => p = q

ClaimInv == TypeOK /\ PostsAgree /\ HandedUnderClaim /\ OneClaim

LEMMA MobileFacts ==
  ASSUME NEW S \in SUBSET Mobile
  PROVE  IsFiniteSet(S) /\ Cardinality(S) \in Nat
BY CampaignAssumption, FS_Subset, FS_CardinalityType

\* A POST other than p is as it was.
OthersStay(p) ==
  /\ DOMAIN post' = DOMAIN post
  /\ \A q \in DOMAIN post \ {p} : post'[q] = post[q]

LEMMA InitClaimInv == Init => ClaimInv
<1> SUFFICES ASSUME Init  PROVE  ClaimInv
  OBVIOUS
<1>1. DOMAIN post = {} /\ handed = {}
  BY DEF Init
<1>2. TypeOK
  BY <1>1 DEF Init, TypeOK
<1> QED
  BY <1>1, <1>2 DEF ClaimInv, PostsAgree, HandedUnderClaim, OneClaim

LEMMA StepClaimInv == ClaimInv /\ [Next]_vars => ClaimInv'
<1> SUFFICES ASSUME ClaimInv, [Next]_vars  PROVE  ClaimInv'
  OBVIOUS
<1> USE NoneAssumption DEF ClaimInv
<1>1. CASE UNCHANGED vars
  BY <1>1 DEF vars, TypeOK, PostsAgree, HandedUnderClaim, OneClaim, Involved,
              Running
<1>2. ASSUME NEW m \in Mobile, Moves(m)
      PROVE  ClaimInv'
  BY <1>2 DEF Moves, TypeOK, PostsAgree, HandedUnderClaim, OneClaim, Involved,
              Running
<1>3. ASSUME NEW t \in Token, UNCHANGED <<members, campaign, rows, post, handed, broken>>,
             preview' \in [Token -> Preview \cup {NoPreview}],
             \A k \in Token \ {t} : preview'[k] = preview[k],
             preview[t] \in Preview =>
               /\ preview'[t] \in Preview
               /\ preview'[t].by = preview[t].by
               /\ preview'[t].text = preview[t].text
               /\ preview'[t].to = preview[t].to
      PROVE  ClaimInv'
  <2>1. \A p \in DOMAIN post :
          LET k == post[p].token IN
          /\ preview[k] \in Preview => /\ preview'[k] \in Preview
                                       /\ preview'[k].by = preview[k].by
                                       /\ preview'[k].text = preview[k].text
                                       /\ preview'[k].to = preview[k].to
    BY <1>3 DEF TypeOK, Submission
  <2>2. TypeOK'
    BY <1>3 DEF TypeOK
  <2>3. PostsAgree'
    BY <1>3, <2>1 DEF PostsAgree, Running
  <2>4. HandedUnderClaim'
    BY <1>3, <2>1 DEF HandedUnderClaim, PostsAgree
  <2> QED
    BY <1>3, <2>2, <2>3, <2>4 DEF OneClaim, Involved, Running
<1>4. ASSUME NEW t \in Token, NEW by \in Manager, NEW audience \in Audience,
             NEW typed \in SUBSET Mobile, NEW text \in Message,
             MakePreview(t, by, audience, typed, text)
      PROVE  ClaimInv'
  <2>1. Recipients(audience, typed) \in SUBSET Mobile
    BY DEF Recipients, TypeOK
  <2>2. [by |-> by, audience |-> audience, to |-> Recipients(audience, typed),
         text |-> text, fresh |-> TRUE] \in Preview
    BY <2>1 DEF Preview
  <2> QED
    BY <1>3, <1>4, <2>2 DEF MakePreview, TypeOK
<1>5. ASSUME NEW t \in Token, Expire(t)
      PROVE  ClaimInv'
  <2>1. preview[t] \in Preview
    BY <1>5 DEF Expire, TypeOK
  <2>2. /\ preview' \in [Token -> Preview \cup {NoPreview}]
        /\ \A k \in Token \ {t} : preview'[k] = preview[k]
        /\ preview'[t] = [preview[t] EXCEPT !.fresh = FALSE]
    BY <1>5, <2>1 DEF Expire, TypeOK, Preview
  <2>3. /\ preview'[t] \in Preview /\ preview'[t].by = preview[t].by
        /\ preview'[t].text = preview[t].text /\ preview'[t].to = preview[t].to
    BY <2>1, <2>2 DEF Preview
  <2> QED
    BY <1>3, <1>5, <2>2, <2>3 DEF Expire
<1>6. ASSUME NEW p \in Post, NEW t \in Token, NEW by \in Manager,
             NEW audience \in Audience, NEW typed \in SUBSET Mobile,
             NEW text \in Message, Confirm(p, t, by, audience, typed, text)
      PROVE  ClaimInv'
  <2> DEFINE to == Recipients(audience, typed)
             new == [at |-> "claim", token |-> t, by |-> by, text |-> text,
                     todo |-> to, due |-> {}]
  <2>1. /\ UNCHANGED <<members, preview, campaign, rows, handed, broken>>
        /\ p \notin DOMAIN post
        /\ post' = [q \in DOMAIN post \cup {p} |-> IF q = p THEN new ELSE post[q]]
        /\ preview[t] # NoPreview /\ preview[t].by = by
        /\ preview[t].to = to /\ preview[t].text = text
    BY <1>6 DEF Confirm, Signature
  <2>2. /\ DOMAIN post' = DOMAIN post \cup {p} /\ post'[p] = new
        /\ \A q \in DOMAIN post : post'[q] = post[q] /\ q # p
    BY <2>1
  <2>3. new \in Submission
    BY DEF Submission, Recipients, TypeOK
  <2>4. TypeOK'
    BY <2>1, <2>2, <2>3 DEF TypeOK
  <2>5. preview[t] \in Preview
    BY <2>1 DEF TypeOK
  <2>6. ~Running(p)' /\ \A q \in DOMAIN post : Running(q)' <=> Running(q)
    BY <2>2 DEF Running
  <2>7. \A h \in handed : h.post \in DOMAIN post
    BY DEF HandedUnderClaim
  <2>8. PostsAgree'
    BY <2>1, <2>2, <2>5, <2>6 DEF PostsAgree
  <2>9. HandedUnderClaim'
    BY <2>1, <2>2 DEF HandedUnderClaim
  <2>10. \A q \in DOMAIN post : Involved(q)' <=> Involved(q)
    BY <2>1, <2>6 DEF Involved
  <2>11. ~Involved(p)'
    BY <2>1, <2>6, <2>7 DEF Involved
  <2>12. OneClaim'
    BY <2>2, <2>10, <2>11 DEF OneClaim
  <2> QED
    BY <2>4, <2>8, <2>9, <2>12
<1>7. ASSUME NEW p \in Post, Claim(p)
      PROVE  ClaimInv'
  <2>1. p \in DOMAIN post /\ post[p].at = "claim" /\ post[p] \in Submission
    BY <1>7 DEF Claim, TypeOK
  <2>2. PICK t \in Token : t = post[p].token
    BY <2>1 DEF Submission
  <2>3. UNCHANGED <<members, preview, rows, handed, broken>>
    BY <1>7 DEF Claim
  <2>4. \A h \in handed : h.post # p
    BY <2>1 DEF HandedUnderClaim
  <2>5. CASE /\ campaign[t] = NoCampaign
             /\ campaign' = [campaign EXCEPT ![t] =
                  [count |-> Cardinality(post[p].todo), sent |-> 0, failed |-> 0]]
             /\ post' = [post EXCEPT ![p].at = "send"]
    <3>1. OthersStay(p) /\ post'[p] = [post[p] EXCEPT !.at = "send"]
      BY <2>1, <2>5 DEF OthersStay
    <3>2. post'[p] \in Submission /\ post'[p].token = t
      BY <2>1, <2>2, <3>1 DEF Submission
    <3>3. [count |-> Cardinality(post[p].todo), sent |-> 0, failed |-> 0] \in Campaign
      BY <2>1, MobileFacts DEF Submission, Campaign
    <3>4. /\ campaign' \in [Token -> Campaign \cup {NoCampaign}]
          /\ campaign'[t] # NoCampaign
          /\ \A k \in Token \ {t} : campaign'[k] = campaign[k]
      BY <2>5, <3>3 DEF TypeOK
    <3>5. TypeOK'
      <4>1. post' \in [DOMAIN post -> Submission]
        BY <2>5, <3>2 DEF TypeOK
      <4> QED
        BY <2>3, <3>4, <4>1 DEF TypeOK
    <3>6. \A q \in DOMAIN post \ {p} : Running(q)' <=> Running(q)
      BY <3>1 DEF OthersStay, Running
    <3>7. \A q \in DOMAIN post : post[q].token \in Token
      BY DEF TypeOK, Submission
    <3>8. PostsAgree'
      <4> SUFFICES ASSUME NEW q \in DOMAIN post
                   PROVE  LET v == preview[post'[q].token] IN
                          /\ v \in Preview
                          /\ post'[q].text = v.text /\ post'[q].by = v.by
                          /\ post'[q].todo \subseteq v.to
                          /\ \/ post'[q].due = {}
                             \/ \E row \in Row : post'[q].due = {row}
                          /\ post'[q].at = "count" => post'[q].due # {}
                          /\ post'[q].at = "claim" =>
                               post'[q].due = {} /\ post'[q].todo = v.to
                          /\ Running(q)' => campaign'[post'[q].token] # NoCampaign
        BY <2>3, <3>1 DEF PostsAgree, OthersStay
      <4>1. CASE q = p
        BY <2>1, <2>2, <3>1, <3>4, <4>1 DEF PostsAgree, Submission
      <4>2. CASE q # p
        <5>1. post'[q] = post[q] /\ post[q].token \in Token
          BY <3>1, <3>7, <4>2 DEF OthersStay
        <5> QED
          BY <3>4, <3>6, <4>2, <5>1 DEF PostsAgree
      <4> QED
        BY <4>1, <4>2
    <3>9. HandedUnderClaim'
      BY <2>3, <2>4, <3>1, <3>4, <3>7 DEF HandedUnderClaim, OthersStay
    <3>10. \A q \in DOMAIN post \ {p} : Involved(q) => post[q].token # t
      BY <2>5 DEF Involved, PostsAgree, HandedUnderClaim
    <3>11. \A q \in DOMAIN post \ {p} : /\ Involved(q)' <=> Involved(q)
                                        /\ post'[q] = post[q]
      BY <2>3, <3>1, <3>6 DEF Involved, OthersStay
    <3>12. OneClaim'
      BY <3>1, <3>2, <3>10, <3>11 DEF OneClaim, OthersStay
    <3> QED
      BY <3>5, <3>8, <3>9, <3>12
  <2>6. CASE campaign[t] # NoCampaign /\ UNCHANGED campaign
             /\ post' = [post EXCEPT ![p].at = "done"]
    <3>1. OthersStay(p) /\ post'[p] = [post[p] EXCEPT !.at = "done"]
      BY <2>1, <2>6 DEF OthersStay
    <3>2. post'[p] \in Submission
      BY <2>1, <3>1 DEF Submission
    <3>3. TypeOK'
      BY <2>3, <2>6, <3>2 DEF TypeOK
    <3>4. /\ ~Running(p)'
          /\ \A q \in DOMAIN post \ {p} : Running(q)' <=> Running(q)
      BY <2>1, <3>1 DEF OthersStay, Running, Submission
    <3>5. PostsAgree'
      BY <2>1, <2>3, <2>6, <3>1, <3>4 DEF PostsAgree, OthersStay, Submission
    <3>6. HandedUnderClaim'
      BY <2>3, <2>4, <2>6, <3>1 DEF HandedUnderClaim, OthersStay
    <3>7. /\ ~Involved(p)'
          /\ \A q \in DOMAIN post \ {p} : /\ Involved(q)' <=> Involved(q)
                                          /\ post'[q] = post[q]
      BY <2>3, <2>4, <3>1, <3>4 DEF Involved, OthersStay
    <3>8. OneClaim'
      BY <3>1, <3>7 DEF OneClaim, OthersStay
    <3> QED
      BY <3>3, <3>5, <3>6, <3>8
  <2> QED
    BY <1>7, <2>2, <2>5, <2>6 DEF Claim, Unclaimed
<1>8. ASSUME NEW p \in DOMAIN post, OthersStay(p), post' \in [DOMAIN post -> Submission],
             post'[p].token = post[p].token, post'[p].text = post[p].text,
             post'[p].by = post[p].by, post'[p].todo \subseteq post[p].todo,
             post'[p].at # "claim",
             post'[p].due = {} \/ \E row \in Row : post'[p].due = {row},
             post'[p].at = "count" => post'[p].due # {},
             Running(p) \/ (post'[p].at = "done" /\ handed' = handed),
             UNCHANGED <<members, preview>>,
             campaign' \in [Token -> Campaign \cup {NoCampaign}],
             \A t \in Token : campaign[t] # NoCampaign => campaign'[t] # NoCampaign,
             rows' \in [Token -> SUBSET Row], broken' \subseteq Post,
             handed' \subseteq [to: Mobile, post: Post],
             \A h \in handed' : h \in handed \/ (h.post = p /\ h.to \in post[p].todo)
      PROVE  ClaimInv'
  <2>1. TypeOK'
    BY <1>8 DEF TypeOK, OthersStay
  <2>2. \A q \in DOMAIN post : /\ post'[q].token = post[q].token
                               /\ post[q].token \in Token
                               /\ Running(q)' => Running(q)
    BY <1>8 DEF OthersStay, Running, TypeOK, Submission
  <2>0. \A h \in handed' : h \in handed \/ (h.post = p /\ Running(p) /\ h.to \in post[p].todo)
    BY <1>8
  <2>3. \A q \in DOMAIN post : Involved(q)' => Involved(q)
    BY <2>0, <2>2 DEF Involved
  <2>4. PostsAgree'
    <3> SUFFICES ASSUME NEW q \in DOMAIN post
                 PROVE  LET v == preview[post'[q].token] IN
                        /\ v \in Preview
                        /\ post'[q].text = v.text /\ post'[q].by = v.by
                        /\ post'[q].todo \subseteq v.to
                        /\ \/ post'[q].due = {}
                           \/ \E row \in Row : post'[q].due = {row}
                        /\ post'[q].at = "count" => post'[q].due # {}
                        /\ post'[q].at = "claim" =>
                             post'[q].due = {} /\ post'[q].todo = v.to
                        /\ Running(q)' => campaign'[post'[q].token] # NoCampaign
      BY <1>8 DEF PostsAgree, OthersStay
    <3>1. CASE q = p
      BY <1>8, <2>2, <3>1 DEF PostsAgree
    <3>2. CASE q # p
      BY <1>8, <2>2, <3>2 DEF PostsAgree, OthersStay
    <3> QED
      BY <3>1, <3>2
  <2>5. \A q \in DOMAIN post : post[q].at # "claim" => post'[q].at # "claim"
    BY <1>8 DEF OthersStay
  <2>6. HandedUnderClaim'
    <3> SUFFICES ASSUME NEW h \in handed'
                 PROVE  /\ h.post \in DOMAIN post' /\ post'[h.post].at # "claim"
                        /\ campaign'[post'[h.post].token] # NoCampaign
                        /\ h.to \in preview[post'[h.post].token].to
      BY <1>8 DEF HandedUnderClaim
    <3>1. CASE h \in handed
      BY <1>8, <2>2, <2>5, <3>1 DEF HandedUnderClaim, OthersStay
    <3>2. CASE h \notin handed
      <4>1. h.post = p /\ h.to \in post[p].todo /\ Running(p)
        BY <1>8, <3>2
      <4> QED
        BY <1>8, <2>2, <4>1 DEF PostsAgree, OthersStay
    <3> QED
      BY <3>1, <3>2
  <2>7. OneClaim'
    BY <1>8, <2>2, <2>3 DEF OneClaim, OthersStay
  <2> QED
    BY <2>1, <2>4, <2>6, <2>7
<1>9. ASSUME NEW p \in Post, NEW m \in Mobile, Send(p, m)
      PROVE  ClaimInv'
  <2>1. p \in DOMAIN post /\ post[p] \in Submission /\ post[p].at = "send"
        /\ m \in post[p].todo
    BY <1>9 DEF Send, TypeOK
  <2>2. PICK status \in {"sent", "failed"} :
          post' = [post EXCEPT ![p] =
            [@ EXCEPT !.todo = post[p].todo \ {m},
                      !.due = {[to |-> m, status |-> status]}]]
    BY <1>9 DEF Send
  <2> DEFINE new == [post[p] EXCEPT !.todo = @ \ {m},
                                    !.due = {[to |-> m, status |-> status]}]
  <2>3. OthersStay(p) /\ post'[p] = new
    BY <2>1, <2>2 DEF OthersStay
  <2>4. [to |-> m, status |-> status] \in Row
    BY DEF Row
  <2>5. /\ new \in Submission /\ new.token = post[p].token
        /\ new.text = post[p].text /\ new.by = post[p].by /\ new.at = "send"
        /\ new.todo \subseteq post[p].todo
        /\ new.due = {[to |-> m, status |-> status]}
    BY <2>1, <2>4 DEF Submission
  <2>6. post' \in [DOMAIN post -> Submission]
    BY <2>2, <2>5 DEF TypeOK
  <2>7. /\ handed' \subseteq [to: Mobile, post: Post]
        /\ \A h \in handed' : h \in handed \/ (h.post = p /\ h.to \in post[p].todo)
        /\ UNCHANGED <<members, preview, campaign, rows, broken>>
    BY <1>9, <2>1 DEF Send, TypeOK
  <2>8. Running(p)
    BY <2>1 DEF Running
  <2> QED
    BY <1>8, <2>1, <2>3, <2>4, <2>5, <2>6, <2>7, <2>8 DEF TypeOK
<1>10. ASSUME NEW p \in Post, Dispatch(p)
       PROVE  ClaimInv'
  <2>1. p \in DOMAIN post /\ post[p] \in Submission /\ post[p].at = "send"
        /\ post[p].due # {}
    BY <1>10 DEF Dispatch, TypeOK
  <2> DEFINE new == [post[p] EXCEPT !.at = "count"]
  <2>2. OthersStay(p) /\ post'[p] = new
    BY <1>10, <2>1 DEF OthersStay, Dispatch
  <2>3. /\ new \in Submission /\ new.token = post[p].token
        /\ new.text = post[p].text /\ new.by = post[p].by /\ new.at = "count"
        /\ new.todo = post[p].todo /\ new.due = post[p].due
    BY <2>1 DEF Submission
  <2>4. post' \in [DOMAIN post -> Submission]
    BY <1>10, <2>3 DEF TypeOK, Dispatch
  <2>5. rows' \in [Token -> SUBSET Row]
    BY <1>10, <2>1 DEF Dispatch, Recorded, TypeOK, Submission
  <2>6. Running(p)
    BY <2>1 DEF Running
  <2>7. post[p].due = {} \/ \E row \in Row : post[p].due = {row}
    BY <2>1 DEF PostsAgree
  <2>8. UNCHANGED <<members, preview, campaign, handed, broken>>
    BY <1>10 DEF Dispatch
  <2> QED
    BY <1>8, <2>1, <2>2, <2>3, <2>4, <2>5, <2>6, <2>7, <2>8 DEF TypeOK
<1>11. ASSUME NEW p \in Post, Count(p)
       PROVE  ClaimInv'
  <2>1. p \in DOMAIN post /\ post[p] \in Submission /\ post[p].at = "count"
    BY <1>11 DEF Count, TypeOK
  <2> DEFINE new == [post[p] EXCEPT !.at = "send", !.due = {}]
  <2>2. OthersStay(p) /\ post'[p] = new
    BY <1>11, <2>1 DEF OthersStay, Count
  <2>3. /\ new \in Submission /\ new.token = post[p].token
        /\ new.text = post[p].text /\ new.by = post[p].by /\ new.at = "send"
        /\ new.todo = post[p].todo /\ new.due = {}
    BY <2>1 DEF Submission
  <2>4. post' \in [DOMAIN post -> Submission]
    BY <1>11, <2>3 DEF TypeOK, Count
  <2>5. Running(p)
    BY <2>1 DEF Running
  <2>6. PICK t \in Token : t = post[p].token /\ campaign[t] \in Campaign
    BY <2>1, <2>5 DEF PostsAgree, Submission, TypeOK
  <2> DEFINE sent == {row \in post[p].due : row.status = "sent"}
             c(i, j) == [campaign[t] EXCEPT !.sent = campaign[t].sent + i,
                                            !.failed = campaign[t].failed + j]
  <2>7. IsFiniteSet(post[p].due)
    <3>1. post[p].due = {} \/ \E row \in Row : post[p].due = {row}
      BY <2>1 DEF PostsAgree
    <3>2. IsFiniteSet({})
      BY FS_EmptySet
    <3>3. \A row : IsFiniteSet({row})
      BY FS_Singleton
    <3> QED
      BY <3>1, <3>2, <3>3
  <2>8. Cardinality(sent) \in Nat /\ Cardinality(post[p].due \ sent) \in Nat
    <3>1. sent \subseteq post[p].due /\ post[p].due \ sent \subseteq post[p].due
      OBVIOUS
    <3> QED
      BY <2>7, <3>1, FS_Subset, FS_CardinalityType
  <2>9. \A i, j \in Nat : c(i, j) \in Campaign
    <3> SUFFICES ASSUME NEW i \in Nat, NEW j \in Nat
                 PROVE  c(i, j) \in Campaign
      OBVIOUS
    <3>1. campaign[t].sent + i \in Nat /\ campaign[t].failed + j \in Nat
      BY <2>6 DEF Campaign
    <3> QED
      BY <2>6, <3>1 DEF Campaign
  <2>10. campaign' = [campaign EXCEPT ![t] =
                       c(Cardinality(sent), Cardinality(post[p].due \ sent))]
    BY <1>11, <2>6 DEF Count
  <2>11. /\ campaign' \in [Token -> Campaign \cup {NoCampaign}]
         /\ \A k \in Token : campaign[k] # NoCampaign => campaign'[k] # NoCampaign
    BY <2>8, <2>9, <2>10 DEF TypeOK
  <2>12. UNCHANGED <<members, preview, rows, handed, broken>>
    BY <1>11 DEF Count
  <2> QED
    BY <1>8, <2>1, <2>2, <2>3, <2>4, <2>5, <2>11, <2>12 DEF TypeOK
<1>12. ASSUME NEW p \in Post, Done(p) \/ Break(p)
       PROVE  ClaimInv'
  <2>1. /\ p \in DOMAIN post /\ post[p] \in Submission
        /\ post' = [post EXCEPT ![p].at = "done"]
        /\ UNCHANGED <<members, preview, campaign, rows, handed>>
        /\ broken' \subseteq Post
    BY <1>12 DEF Done, Break, TypeOK
  <2> DEFINE new == [post[p] EXCEPT !.at = "done"]
  <2>2. OthersStay(p) /\ post'[p] = new
    BY <2>1 DEF OthersStay
  <2>3. /\ new \in Submission /\ new.token = post[p].token
        /\ new.text = post[p].text /\ new.by = post[p].by /\ new.at = "done"
        /\ new.todo = post[p].todo /\ new.due = post[p].due
    BY <2>1 DEF Submission
  <2>4. post' \in [DOMAIN post -> Submission]
    BY <2>1, <2>3 DEF TypeOK
  <2>5. post[p].due = {} \/ \E row \in Row : post[p].due = {row}
    BY <2>1 DEF PostsAgree
  <2> QED
    BY <1>8, <2>1, <2>2, <2>3, <2>4, <2>5 DEF TypeOK
<1> QED
  BY <1>1, <1>2, <1>4, <1>5, <1>6, <1>7, <1>9, <1>10, <1>11, <1>12 DEF Next

-----------------------------------------------------------------------------
(* The books of a campaign. *)

Tos(R) == {row.to : row \in R}
Mine(t) == {h \in handed : post[h.post].token = t}
RunningOn(p, t) == Running(p) /\ post[p].token = t

SentDue(p) == {row \in post[p].due : row.status = "sent"}

\* Rows that a POST has written and its campaign does not count yet.
LagOfSent(p) ==
  IF post[p].at = "count" THEN Cardinality(SentDue(p)) ELSE 0
LagOfFailed(p) ==
  IF post[p].at = "count" THEN Cardinality(post[p].due \ SentDue(p)) ELSE 0

Finished(t) ==
  \A p \in DOMAIN post : post[p].token = t => ~Running(p) /\ p \notin broken

\* The counts of a campaign are those of its rows, but for one.
Counted(t, i, j) ==
  LET c == campaign[t] IN
  /\ c.sent + i = Cardinality(Statuses(t, "sent"))
  /\ c.sent + c.failed + i + j = Cardinality(rows[t])
  /\ \A p : RunningOn(p, t) => i = LagOfSent(p) /\ j = LagOfFailed(p)
  /\ Finished(t) => i = 0 /\ j = 0

Claimed(t) ==
  /\ preview[t] \in Preview
  /\ campaign[t].count = Cardinality(preview[t].to)
  /\ \E i, j \in {0, 1} : i + j <= 1 /\ Counted(t, i, j)
  /\ IsFiniteSet(rows[t])
  /\ Cardinality(Tos(rows[t])) = Cardinality(rows[t])
  /\ \A row \in Statuses(t, "sent") : row.to \in Tos(Mine(t))
  /\ \E m : Tos(Mine(t)) \ Tos(rows[t]) \subseteq {m}
  /\ Finished(t) => Tos(rows[t]) = preview[t].to

Books(t) == IF campaign[t] = NoCampaign THEN rows[t] = {} ELSE Claimed(t)

\* How far a POST has come: who has a row, who is about to get one, who waits.
Progress(p) ==
  LET t == post[p].token
      todo == post[p].todo
      due == Tos(post[p].due)
      done == Tos(rows[t])
  IN
  /\ done \cap todo = {} /\ due \cap todo = {}
  /\ post[p].at = "send" => done \cap due = {}
  /\ post[p].at = "count" => post[p].due \subseteq rows[t]
  /\ done \cup due \cup todo = preview[t].to
  /\ Tos(Mine(t)) \subseteq done \cup due
  /\ \A row \in post[p].due : row.status = "sent" => row.to \in Tos(Mine(t))

BooksInv ==
  /\ \A t \in Token : Books(t)
  /\ \A p \in DOMAIN post : Running(p) => Progress(p)

LEMMA DueCounts ==
  ASSUME NEW row, NEW due, due = {row}
  PROVE  LET sent == {r \in due : r.status = "sent"} IN
         /\ row.status = "sent" => Cardinality(sent) = 1 /\ Cardinality(due \ sent) = 0
         /\ row.status # "sent" => Cardinality(sent) = 0 /\ Cardinality(due \ sent) = 1
<1> DEFINE sent == {r \in due : r.status = "sent"}
<1>1. Cardinality({}) = 0 /\ Cardinality({row}) = 1
  BY FS_EmptySet, FS_Singleton
<1>2. row.status = "sent" => sent = {row} /\ due \ sent = {}
  OBVIOUS
<1>3. row.status # "sent" => sent = {} /\ due \ sent = {row}
  OBVIOUS
<1> QED
  BY <1>1, <1>2, <1>3

\* What the invariant says of the books.
LEMMA BooksInvEnough == ClaimInv /\ BooksInv => BooksBalance
<1> SUFFICES ASSUME ClaimInv, BooksInv, NEW t \in Token, campaign[t] # NoCampaign
             PROVE  LET c == campaign[t]
                        mine == {h \in handed : post[h.post].token = t}
                        at == {p \in DOMAIN post : post[p].token = t}
                    IN
                    /\ c.sent \in {Cardinality(Statuses(t, "sent")),
                                    Cardinality(Statuses(t, "sent")) - 1}
                    /\ Cardinality(rows[t]) - (c.sent + c.failed) \in {0, 1}
                    /\ \A row \in Statuses(t, "sent") :
                         \E h \in mine : h.to = row.to
                    /\ Cardinality({h.to : h \in mine}
                                    \ {row.to : row \in rows[t]}) <= 1
                    /\ (\A p \in at : post[p].at = "done") /\ at \cap broken = {} =>
                         /\ {row.to : row \in rows[t]} = preview[t].to
                         /\ c.sent + c.failed = c.count
  BY DEF BooksBalance
<1> DEFINE c == campaign[t]
           at == {p \in DOMAIN post : post[p].token = t}
<1>1. Claimed(t) /\ c \in Campaign
  BY DEF BooksInv, Books, ClaimInv, TypeOK
<1>2. c.sent \in Nat /\ c.failed \in Nat
  BY <1>1 DEF Campaign
<1>3. PICK i \in {0, 1}, j \in {0, 1} : i + j <= 1 /\ Counted(t, i, j)
  BY <1>1 DEF Claimed
<1>4. /\ c.sent + i = Cardinality(Statuses(t, "sent"))
      /\ c.sent + c.failed + i + j = Cardinality(rows[t])
  BY <1>3 DEF Counted
<1>5. /\ c.sent \in {Cardinality(Statuses(t, "sent")),
                      Cardinality(Statuses(t, "sent")) - 1}
      /\ Cardinality(rows[t]) - (c.sent + c.failed) \in {0, 1}
  BY <1>2, <1>3, <1>4
<1>6. \A row \in Statuses(t, "sent") :
        \E h \in {g \in handed : post[g.post].token = t} : h.to = row.to
  BY <1>1 DEF Claimed, Tos, Mine
<1>7. Cardinality({h.to : h \in Mine(t)} \ {row.to : row \in rows[t]}) <= 1
  <2> DEFINE loose == Tos(Mine(t)) \ Tos(rows[t])
  <2>1. PICK m : loose \subseteq {m}
    BY <1>1 DEF Claimed
  <2>2. loose = {} \/ loose = {m}
    BY <2>1
  <2>3. Cardinality({}) = 0 /\ Cardinality({m}) = 1
    BY FS_EmptySet, FS_Singleton
  <2>4. Cardinality(loose) <= 1
    BY <2>2, <2>3
  <2> QED
    BY <2>4 DEF Tos
<1>8. ASSUME \A p \in at : post[p].at = "done", at \cap broken = {}
      PROVE  /\ {row.to : row \in rows[t]} = preview[t].to
             /\ c.sent + c.failed = c.count
  <2>1. Finished(t)
    BY <1>8 DEF Finished, Running
  <2>2. i = 0 /\ j = 0 /\ Tos(rows[t]) = preview[t].to
    BY <1>1, <1>3, <2>1 DEF Claimed, Counted
  <2>3. c.sent + c.failed = Cardinality(Tos(rows[t]))
    BY <1>1, <1>2, <1>4, <2>2 DEF Claimed
  <2> QED
    BY <1>1, <2>2, <2>3 DEF Claimed, Tos
<1> QED
  BY <1>5, <1>6, <1>7, <1>8 DEF Mine

\* A step that leaves the campaign, its rows and what was handed over alone.
LEMMA BooksUntouched ==
  ASSUME NEW t \in Token, Books(t),
         campaign'[t] = campaign[t], rows'[t] = rows[t],
         campaign[t] # NoCampaign => preview'[t] \in Preview
                                     /\ preview'[t].to = preview[t].to,
         Tos(Mine(t))' = Tos(Mine(t)),
         Finished(t)' => Finished(t),
         \A p : RunningOn(p, t)' => /\ RunningOn(p, t)
                                    /\ post'[p].at = post[p].at
                                    /\ post'[p].due = post[p].due
  PROVE  Books(t)'
<1>1. CASE campaign[t] = NoCampaign
  BY <1>1 DEF Books
<1>2. CASE campaign[t] # NoCampaign
  <2>1. Claimed(t)
    BY <1>2 DEF Books
  <2>2. PICK i \in {0, 1}, j \in {0, 1} : i + j <= 1 /\ Counted(t, i, j)
    BY <2>1 DEF Claimed
  <2>3. Statuses(t, "sent")' = Statuses(t, "sent") /\ Tos(rows[t])' = Tos(rows[t])
    BY DEF Statuses, Tos
  <2>4. \A p : RunningOn(p, t)' => i = LagOfSent(p)' /\ j = LagOfFailed(p)'
    BY <2>2 DEF Counted, LagOfSent, LagOfFailed, SentDue
  <2>5. Counted(t, i, j)'
    BY <2>2, <2>3, <2>4 DEF Counted
  <2>6. Claimed(t)'
    BY <1>2, <2>1, <2>2, <2>3, <2>5 DEF Claimed
  <2> QED
    BY <1>2, <2>6 DEF Books
<1> QED
  BY <1>1, <1>2

LEMMA ProgressUntouched ==
  ASSUME NEW p, Progress(p), post'[p].token = post[p].token,
         post'[p].at = post[p].at,
         post'[p].todo = post[p].todo, post'[p].due = post[p].due,
         rows'[post[p].token] = rows[post[p].token],
         preview'[post[p].token].to = preview[post[p].token].to,
         Tos(Mine(post[p].token))' = Tos(Mine(post[p].token))
  PROVE  Progress(p)'
BY DEF Progress, Tos

LEMMA MineUntouched ==
  ASSUME ClaimInv, NEW t, UNCHANGED handed,
         \A q \in DOMAIN post : post'[q].token = post[q].token
  PROVE  Tos(Mine(t))' = Tos(Mine(t))
BY DEF ClaimInv, HandedUnderClaim, Mine, Tos

\* Only previews, the segment and new POSTs: nothing is claimed or handed over.
LEMMA BooksBeforeClaim ==
  ASSUME ClaimInv, ClaimInv', BooksInv, UNCHANGED <<campaign, rows, handed, broken>>,
         DOMAIN post \subseteq DOMAIN post',
         \A q \in DOMAIN post : post'[q] = post[q],
         \A q \in DOMAIN post' : Running(q)' => q \in DOMAIN post,
         \A t \in Token : preview[t] \in Preview =>
           preview'[t] \in Preview /\ preview'[t].to = preview[t].to
  PROVE  BooksInv'
<1>1. \A t : Tos(Mine(t))' = Tos(Mine(t))
  BY MineUntouched
<1>2. \A q : Running(q)' => Running(q)
  BY DEF Running
<1>3. ASSUME NEW t \in Token  PROVE  Books(t)'
  <2>1. campaign[t] # NoCampaign => preview[t] \in Preview
    BY DEF BooksInv, Books, Claimed
  <2>2. \A p : RunningOn(p, t)' => /\ RunningOn(p, t)
                                   /\ post'[p].at = post[p].at
                                   /\ post'[p].due = post[p].due
    BY <1>2 DEF RunningOn, Running
  <2>3. \A p \in DOMAIN post : Running(p) => Running(p)'
    BY DEF Running
  <2>4. Finished(t)' => Finished(t)
    BY <2>3 DEF Finished
  <2> QED
    BY <1>1, <2>1, <2>2, <2>4, BooksUntouched DEF BooksInv
<1>4. ASSUME NEW p \in DOMAIN post', Running(p)'
      PROVE  Progress(p)'
  <2>1. p \in DOMAIN post /\ post'[p] = post[p] /\ Running(p)
    BY <1>2, <1>4
  <2>2. post[p].token \in Token /\ preview[post[p].token] \in Preview
    BY <2>1 DEF ClaimInv, TypeOK, Submission, PostsAgree
  <2> QED
    BY <1>1, <2>1, <2>2, ProgressUntouched DEF BooksInv
<1> QED
  BY <1>3, <1>4 DEF BooksInv

\* One POST goes on: the books of other campaigns, and other POSTs, stay.
LEMMA BooksOfOthers ==
  ASSUME ClaimInv, ClaimInv', BooksInv, NEW p \in DOMAIN post, OthersStay(p),
         NEW t \in Token, post[p].token = t, post'[p].token = t,
         UNCHANGED preview,
         \A k \in Token \ {t} : campaign'[k] = campaign[k] /\ rows'[k] = rows[k],
         broken \subseteq broken',
         \A h \in handed : h \in handed',
         \A h \in handed' : h \in handed \/ h.post = p,
         Running(p)' \/ post'[p].at = "done",
         \A q \in DOMAIN post \ {p} : Running(q) /\ post[q].token = t =>
           /\ rows'[t] = rows[t] /\ handed' = handed,
         Books(t)', Running(p)' => Progress(p)'
  PROVE  BooksInv'
<1>1. \A q \in DOMAIN post : /\ post'[q].token = post[q].token
                             /\ q # p => post'[q] = post[q]
  BY DEF OthersStay
<1>2. \A q : q # p => (Running(q)' <=> Running(q))
  BY DEF Running, OthersStay
<1>3. ASSUME NEW k \in Token \ {t}  PROVE  Books(k)'
  <2>1. Mine(k)' = Mine(k)
    BY <1>1 DEF Mine, ClaimInv, HandedUnderClaim
  <2>2. Tos(Mine(k))' = Tos(Mine(k))
    BY <2>1 DEF Tos
  <2>3. \A q : RunningOn(q, k)' => /\ RunningOn(q, k)
                                   /\ post'[q].at = post[q].at
                                   /\ post'[q].due = post[q].due
    BY <1>1, <1>2 DEF RunningOn, Running
  <2>4. Finished(k)' => Finished(k)
    BY <1>1, <1>2 DEF Finished, OthersStay
  <2>5. campaign[k] # NoCampaign => preview[k] \in Preview
    BY DEF BooksInv, Books, Claimed
  <2> QED
    BY <2>2, <2>3, <2>4, <2>5, BooksUntouched DEF BooksInv
<1>4. ASSUME NEW q \in DOMAIN post \ {p}, Running(q)
      PROVE  Progress(q)'
  <2>1. /\ post[q].token \in Token /\ post'[q] = post[q]
    BY <1>1 DEF ClaimInv, TypeOK, Submission
  <2>2. rows'[post[q].token] = rows[post[q].token]
    BY <1>4, <2>1
  <2>3. Mine(post[q].token)' = Mine(post[q].token)
    BY <1>1, <1>4, <2>1 DEF Mine, ClaimInv, HandedUnderClaim
  <2>4. Tos(Mine(post[q].token))' = Tos(Mine(post[q].token))
    BY <2>3 DEF Tos
  <2> QED
    BY <1>4, <2>1, <2>2, <2>4, ProgressUntouched DEF BooksInv
<1>5. \A k \in Token : Books(k)'
  BY <1>3
<1>6. \A q \in DOMAIN post' : Running(q)' => Progress(q)'
  BY <1>2, <1>4 DEF OthersStay
<1> QED
  BY <1>5, <1>6 DEF BooksInv

\* While one POST is at work on a campaign, no other is.
LEMMA OneAtWork ==
  ASSUME ClaimInv, NEW p \in DOMAIN post, NEW t, post[p].token = t,
         Running(p) \/ campaign[t] = NoCampaign
  PROVE  \A q \in DOMAIN post \ {p} : Running(q) => post[q].token # t
<1>1. CASE Running(p)
  BY <1>1 DEF ClaimInv, OneClaim, Involved
<1>2. CASE campaign[t] = NoCampaign
  BY <1>2 DEF ClaimInv, PostsAgree
<1> QED
  BY <1>1, <1>2

LEMMA ClaimBooks ==
  ASSUME ClaimInv, ClaimInv', BooksInv, NEW p \in Post, Claim(p)
  PROVE  BooksInv'
<1>1. p \in DOMAIN post /\ post[p].at = "claim" /\ post[p] \in Submission
  BY DEF Claim, ClaimInv, TypeOK
<1>2. PICK t \in Token : t = post[p].token
  BY <1>1 DEF Submission
<1>3. UNCHANGED <<members, preview, rows, handed, broken>>
  BY DEF Claim
<1>4. ~Running(p)
  BY <1>1 DEF Running
<1>5. CASE /\ campaign[t] = NoCampaign
           /\ campaign' = [campaign EXCEPT ![t] =
                [count |-> Cardinality(post[p].todo), sent |-> 0, failed |-> 0]]
           /\ post' = [post EXCEPT ![p].at = "send"]
  <2>1. OthersStay(p) /\ post'[p] = [post[p] EXCEPT !.at = "send"]
    BY <1>1, <1>5 DEF OthersStay
  <2>2. /\ post'[p].token = t /\ post'[p].at = "send" /\ Running(p)'
        /\ post'[p].todo = preview[t].to /\ post'[p].due = {}
        /\ preview[t] \in Preview
    BY <1>1, <1>2, <2>1 DEF Submission, ClaimInv, PostsAgree, OthersStay, Running
  <2>3. /\ campaign'[t].count = Cardinality(preview[t].to)
        /\ campaign'[t].sent = 0 /\ campaign'[t].failed = 0
        /\ campaign'[t] # NoCampaign
        /\ \A k \in Token \ {t} : campaign'[k] = campaign[k]
    <3>1. campaign'[t] = [count |-> Cardinality(post[p].todo), sent |-> 0, failed |-> 0]
      BY <1>5 DEF ClaimInv, TypeOK
    <3>2. post[p].todo = preview[t].to
      BY <1>1, <1>2 DEF ClaimInv, PostsAgree
    <3>3. campaign'[t] # NoCampaign
      <4>1. PostsAgree' /\ p \in DOMAIN post'
        BY <1>1, <2>1 DEF ClaimInv, OthersStay
      <4> QED
        BY <2>2, <4>1 DEF PostsAgree
    <3> QED
      BY <1>5, <3>1, <3>2, <3>3 DEF ClaimInv, TypeOK
  <2>4. rows'[t] = {} /\ rows[t] = {}
    BY <1>3, <1>5 DEF BooksInv, Books
  <2>5. Mine(t)' = {}
    BY <1>1, <1>3, <1>5, <2>1 DEF Mine, ClaimInv, HandedUnderClaim, OthersStay
  <2>6. Tos(rows[t])' = {} /\ Tos(Mine(t))' = {} /\ Statuses(t, "sent")' = {}
        /\ Tos(post[p].due)' = {}
    BY <2>2, <2>4, <2>5 DEF Tos, Statuses
  <2>7. IsFiniteSet({}) /\ Cardinality({}) = 0
    BY FS_EmptySet
  <2>8. \A q : RunningOn(q, t)' => q = p
    BY <1>1, <1>2, <1>5, <2>1, OneAtWork DEF RunningOn, Running, OthersStay
  <2>9. LagOfSent(p)' = 0 /\ LagOfFailed(p)' = 0
    BY <2>2 DEF LagOfSent, LagOfFailed
  <2>10. ~Finished(t)'
    BY <2>2 DEF Finished, Running
  <2>11. Counted(t, 0, 0)'
    BY <2>3, <2>4, <2>6, <2>7, <2>8, <2>9, <2>10 DEF Counted
  <2>12. Claimed(t)'
    <3>1. preview'[t] \in Preview
          /\ campaign'[t].count = Cardinality(preview'[t].to)
      BY <1>3, <2>2, <2>3
    <3>2. \E i, j \in {0, 1} : i + j <= 1 /\ Counted(t, i, j)'
      BY <2>11
    <3>3. /\ IsFiniteSet(rows'[t])
          /\ Cardinality(Tos(rows[t])') = Cardinality(rows'[t])
      BY <2>4, <2>6, <2>7
    <3>4. \E m : Tos(Mine(t))' \ Tos(rows[t])' \subseteq {m}
      BY <2>6
    <3> QED
      BY <2>6, <2>10, <3>1, <3>2, <3>3, <3>4 DEF Claimed
  <2>13. Progress(p)'
    BY <1>3, <2>2, <2>6 DEF Progress
  <2> QED
    BY <1>1, <1>2, <1>3, <1>5, <2>1, <2>2, <2>3, <2>12, <2>13, OneAtWork,
       BooksOfOthers DEF Books
<1>6. CASE /\ campaign[t] # NoCampaign /\ UNCHANGED campaign
           /\ post' = [post EXCEPT ![p].at = "done"]
  <2>1. OthersStay(p) /\ post'[p] = [post[p] EXCEPT !.at = "done"]
    BY <1>1, <1>6 DEF OthersStay
  <2>2. post'[p].token = t /\ post'[p].at = "done" /\ ~Running(p)'
    BY <1>1, <1>2, <2>1 DEF Submission, OthersStay, Running
  <2>3. Tos(Mine(t))' = Tos(Mine(t))
    BY <1>2, <1>3, <2>1, <2>2, MineUntouched DEF OthersStay
  <2>4. \A q : RunningOn(q, t)' => /\ RunningOn(q, t)
                                   /\ post'[q].at = post[q].at
                                   /\ post'[q].due = post[q].due
    BY <2>1, <2>2 DEF RunningOn, Running, OthersStay
  <2>5. Finished(t)' => Finished(t)
    BY <1>2, <1>3, <1>4, <2>1, <2>2 DEF Finished, Running, OthersStay
  <2>6. campaign[t] # NoCampaign => preview[t] \in Preview
    BY DEF BooksInv, Books, Claimed
  <2>7. Books(t)'
    BY <1>3, <1>6, <2>3, <2>4, <2>5, <2>6, BooksUntouched DEF BooksInv
  <2> QED
    BY <1>1, <1>2, <1>3, <1>6, <2>1, <2>2, <2>7, BooksOfOthers
<1> QED
  BY <1>2, <1>5, <1>6 DEF Claim, Unclaimed

LEMMA SendBooks ==
  ASSUME ClaimInv, ClaimInv', BooksInv, NEW p \in Post, NEW m \in Mobile, Send(p, m)
  PROVE  BooksInv'
<1>1. /\ p \in DOMAIN post /\ post[p].at = "send" /\ post[p].due = {}
      /\ m \in post[p].todo /\ post[p] \in Submission
      /\ UNCHANGED <<members, preview, campaign, rows, broken>>
  BY DEF Send, ClaimInv, TypeOK
<1>2. PICK t \in Token : t = post[p].token
  BY <1>1 DEF Submission
<1>3. PICK status \in {"sent", "failed"} :
        /\ post' = [post EXCEPT ![p] =
             [@ EXCEPT !.todo = post[p].todo \ {m},
                       !.due = {[to |-> m, status |-> status]}]]
        /\ handed' \in {handed, handed \cup {[to |-> m, post |-> p]}}
        /\ status = "sent" => [to |-> m, post |-> p] \in handed'
  BY DEF Send
<1> DEFINE row == [to |-> m, status |-> status]
<1>4. /\ OthersStay(p) /\ post'[p].token = t /\ post'[p].at = "send"
      /\ post'[p].todo = post[p].todo \ {m} /\ post'[p].due = {row}
  BY <1>1, <1>2, <1>3 DEF OthersStay, Submission
<1>5. Running(p) /\ Running(p)'
  BY <1>1, <1>4 DEF Running, OthersStay
<1>6. Progress(p)
  BY <1>1, <1>5 DEF BooksInv
<1>7. campaign[t] # NoCampaign /\ Claimed(t)
  BY <1>1, <1>2, <1>5 DEF ClaimInv, PostsAgree, BooksInv, Books
<1>8. /\ Tos(rows[t])' = Tos(rows[t]) /\ Statuses(t, "sent")' = Statuses(t, "sent")
      /\ Tos(post[p].due)' = {m} /\ Tos(post[p].due) = {}
  BY <1>1, <1>4 DEF Tos, Statuses
<1>9. /\ Tos(Mine(t)) \subseteq Tos(Mine(t))'
      /\ Tos(Mine(t))' \subseteq Tos(Mine(t)) \cup {m}
      /\ status = "sent" => m \in Tos(Mine(t))'
  <2>1. \A h \in handed : h.post \in DOMAIN post
    BY DEF ClaimInv, HandedUnderClaim
  <2>2. \A q \in DOMAIN post : post'[q].token = post[q].token
    BY <1>2, <1>4 DEF OthersStay
  <2>3. Mine(t) \subseteq Mine(t)'
    BY <1>3, <2>1, <2>2 DEF Mine
  <2>4. Mine(t)' \subseteq Mine(t) \cup {[to |-> m, post |-> p]}
    BY <1>3, <2>1, <2>2 DEF Mine
  <2>5. status = "sent" => [to |-> m, post |-> p] \in Mine(t)'
    BY <1>3, <1>4 DEF Mine
  <2> QED
    BY <2>3, <2>4, <2>5 DEF Tos
<1>10. \A q : RunningOn(q, t)' => q = p
  BY <1>1, <1>2, <1>4, <1>5, OneAtWork DEF RunningOn, Running, OthersStay
<1>11. ~Finished(t)'
  BY <1>4, <1>5 DEF Finished, Running
<1>12. Claimed(t)'
  <2>1. PICK i \in {0, 1}, j \in {0, 1} : i + j <= 1 /\ Counted(t, i, j)
    BY <1>7 DEF Claimed
  <2>2. i = 0 /\ j = 0
    BY <1>1, <1>2, <1>5, <2>1 DEF Counted, RunningOn, LagOfSent, LagOfFailed
  <2>3. LagOfSent(p)' = 0 /\ LagOfFailed(p)' = 0
    BY <1>4 DEF LagOfSent, LagOfFailed
  <2>4. Counted(t, i, j)'
    BY <1>1, <1>8, <1>10, <1>11, <2>1, <2>2, <2>3 DEF Counted
  <2>5. Tos(Mine(t))' \ Tos(rows[t])' \subseteq {m}
    BY <1>2, <1>6, <1>8, <1>9 DEF Progress
  <2>6. \A r \in Statuses(t, "sent")' : r.to \in Tos(Mine(t))'
    BY <1>7, <1>8, <1>9 DEF Claimed
  <2> QED
    BY <1>1, <1>7, <1>8, <1>11, <2>1, <2>4, <2>5, <2>6 DEF Claimed
<1>13. Progress(p)'
  <2>1. /\ Tos(rows[t]) \cap post[p].todo = {}
        /\ Tos(rows[t]) \cup post[p].todo = preview[t].to
        /\ Tos(Mine(t)) \subseteq Tos(rows[t])
    BY <1>2, <1>6, <1>8 DEF Progress
  <2>2. /\ Tos(rows[t])' \cap post'[p].todo = {}
        /\ Tos(post[p].due)' \cap post'[p].todo = {}
        /\ Tos(rows[t])' \cap Tos(post[p].due)' = {}
        /\ Tos(rows[t])' \cup Tos(post[p].due)' \cup post'[p].todo = preview[t].to
    <3>1. post'[p].todo = post[p].todo \ {m} /\ m \in post[p].todo
      BY <1>1, <1>4
    <3>2. Tos(rows[t])' = Tos(rows[t]) /\ Tos(post[p].due)' = {m}
      BY <1>8
    <3> QED
      BY <2>1, <3>1, <3>2
  <2>3. Tos(Mine(t))' \subseteq Tos(rows[t])' \cup Tos(post[p].due)'
    BY <1>8, <1>9, <2>1
  <2>4. \A r \in post'[p].due : r.status = "sent" => r.to \in Tos(Mine(t))'
    BY <1>4, <1>9
  <2> QED
    BY <1>1, <1>4, <2>2, <2>3, <2>4 DEF Progress
<1> QED
  BY <1>1, <1>2, <1>3, <1>4, <1>5, <1>7, <1>12, <1>13, OneAtWork, BooksOfOthers
     DEF Books

LEMMA DispatchBooks ==
  ASSUME ClaimInv, ClaimInv', BooksInv, NEW p \in Post, Dispatch(p)
  PROVE  BooksInv'
<1>1. /\ p \in DOMAIN post /\ post[p].at = "send" /\ post[p].due # {}
      /\ post[p] \in Submission
      /\ UNCHANGED <<members, preview, campaign, handed, broken>>
  BY DEF Dispatch, ClaimInv, TypeOK
<1>2. PICK t \in Token : t = post[p].token
  BY <1>1 DEF Submission
<1>3. PICK row \in Row : post[p].due = {row}
  BY <1>1 DEF ClaimInv, PostsAgree
<1>4. /\ rows'[t] = rows[t] \cup {row}
      /\ \A k \in Token \ {t} : rows'[k] = rows[k]
      /\ post' = [post EXCEPT ![p].at = "count"]
  BY <1>2, <1>3 DEF Dispatch, Recorded, ClaimInv, TypeOK
<1>5. /\ OthersStay(p) /\ post'[p].token = t /\ post'[p].at = "count"
      /\ post'[p].todo = post[p].todo /\ post'[p].due = {row}
  BY <1>1, <1>2, <1>3, <1>4 DEF OthersStay, Submission
<1>6. Running(p) /\ Running(p)'
  BY <1>1, <1>5 DEF Running, OthersStay
<1>7. Progress(p)
  BY <1>1, <1>6 DEF BooksInv
<1>8. campaign[t] # NoCampaign /\ Claimed(t)
  BY <1>1, <1>2, <1>6 DEF ClaimInv, PostsAgree, BooksInv, Books
<1>9. /\ Tos(rows[t])' = Tos(rows[t]) \cup {row.to}
      /\ Tos(post[p].due)' = {row.to} /\ Tos(post[p].due) = {row.to}
  BY <1>3, <1>4, <1>5 DEF Tos
<1>10. Tos(Mine(t))' = Tos(Mine(t))
  BY <1>1, <1>2, <1>5, MineUntouched DEF OthersStay
<1>11. /\ row.to \notin Tos(rows[t]) /\ row \notin rows[t]
       /\ row.to \notin post[p].todo
       /\ row.status = "sent" => row.to \in Tos(Mine(t))
  BY <1>1, <1>2, <1>3, <1>7, <1>9 DEF Progress, Tos
<1>12. \A q : RunningOn(q, t)' => q = p
  BY <1>1, <1>2, <1>5, <1>6, OneAtWork DEF RunningOn, Running, OthersStay
<1>13. ~Finished(t)'
  BY <1>5, <1>6 DEF Finished, Running
<1>14. /\ IsFiniteSet(rows[t]) /\ Cardinality(rows[t]) \in Nat
       /\ Cardinality(rows'[t]) = Cardinality(rows[t]) + 1
       /\ IsFiniteSet(rows'[t])
  BY <1>4, <1>8, <1>11, FS_CardinalityType, FS_AddElement DEF Claimed
<1>15. Cardinality(Tos(rows[t])') = Cardinality(rows'[t])
  <2>1. Tos(rows[t]) \subseteq Mobile
    BY DEF Tos, Row, ClaimInv, TypeOK
  <2>2. IsFiniteSet(Tos(rows[t]))
    BY <2>1, MobileFacts
  <2>3. Cardinality(Tos(rows[t]) \cup {row.to}) = Cardinality(Tos(rows[t])) + 1
    BY <1>11, <2>2, FS_AddElement
  <2> QED
    BY <1>8, <1>9, <1>14, <2>3 DEF Claimed
<1>16. Counted(t, 0, 0)
  <2>1. PICK i \in {0, 1}, j \in {0, 1} : i + j <= 1 /\ Counted(t, i, j)
    BY <1>8 DEF Claimed
  <2>2. i = 0 /\ j = 0
    BY <1>1, <1>2, <1>6, <2>1 DEF Counted, RunningOn, LagOfSent, LagOfFailed
  <2> QED
    BY <2>1, <2>2
<1>17. /\ campaign[t].sent \in Nat /\ campaign[t].failed \in Nat
       /\ campaign'[t] = campaign[t]
  BY <1>1, <1>8 DEF ClaimInv, TypeOK, Campaign
<1>18. PICK i \in {0, 1}, j \in {0, 1} :
         /\ i + j = 1
         /\ i = 1 <=> row.status = "sent"
         /\ i = LagOfSent(p)' /\ j = LagOfFailed(p)'
  <2>1. PICK due : due = {row}
    OBVIOUS
  <2>2. /\ LagOfSent(p)' = Cardinality({r \in due : r.status = "sent"})
        /\ LagOfFailed(p)' = Cardinality(due \ {r \in due : r.status = "sent"})
    BY <1>5, <2>1 DEF LagOfSent, LagOfFailed, SentDue
  <2>3. CASE row.status = "sent"
    <3>1. LagOfSent(p)' = 1 /\ LagOfFailed(p)' = 0
      BY <2>1, <2>2, <2>3, DueCounts, Zenon
    <3> QED
      BY <2>3, <3>1
  <2>4. CASE row.status # "sent"
    <3>1. LagOfSent(p)' = 0 /\ LagOfFailed(p)' = 1
      BY <2>1, <2>2, <2>4, DueCounts, Zenon
    <3> QED
      BY <2>4, <3>1
  <2> QED
    BY <2>3, <2>4
<1>19. Cardinality(Statuses(t, "sent")') = Cardinality(Statuses(t, "sent")) + i
  <2>1. IsFiniteSet(Statuses(t, "sent"))
    BY <1>14, FS_Subset DEF Statuses
  <2>2. Cardinality(Statuses(t, "sent")) \in Nat
    BY <2>1, FS_CardinalityType
  <2>3. CASE row.status = "sent"
    <3>1. Statuses(t, "sent")' = Statuses(t, "sent") \cup {row}
      BY <1>4, <2>3 DEF Statuses
    <3>2. row \notin Statuses(t, "sent")
      BY <1>11 DEF Statuses
    <3> QED
      BY <1>18, <2>1, <2>3, <3>1, <3>2, FS_AddElement
  <2>4. CASE row.status # "sent"
    <3>1. Statuses(t, "sent")' = Statuses(t, "sent")
      BY <1>4, <2>4 DEF Statuses
    <3> QED
      BY <1>18, <2>2, <2>4, <3>1
  <2> QED
    BY <2>3, <2>4
<1>20. Counted(t, i, j)'
  <2>1. /\ campaign'[t].sent + i = Cardinality(Statuses(t, "sent")')
        /\ campaign'[t].sent + campaign'[t].failed + i + j = Cardinality(rows'[t])
    BY <1>14, <1>16, <1>17, <1>18, <1>19 DEF Counted
  <2> QED
    BY <1>12, <1>13, <1>18, <2>1 DEF Counted
<1>21. Claimed(t)'
  <2>1. preview'[t] \in Preview /\ campaign'[t].count = Cardinality(preview'[t].to)
    BY <1>1, <1>8 DEF Claimed
  <2>2. \E k, l \in {0, 1} : k + l <= 1 /\ Counted(t, k, l)'
    BY <1>18, <1>20
  <2>3. \A r \in Statuses(t, "sent")' : r.to \in Tos(Mine(t))'
    BY <1>4, <1>8, <1>10, <1>11 DEF Claimed, Statuses
  <2>4. \E m : Tos(Mine(t))' \ Tos(rows[t])' \subseteq {m}
    BY <1>8, <1>9, <1>10 DEF Claimed
  <2> QED
    BY <1>13, <1>14, <1>15, <2>1, <2>2, <2>3, <2>4 DEF Claimed
<1>22. Progress(p)'
  <2>1. /\ Tos(rows[t]) \cap post[p].todo = {}
        /\ Tos(rows[t]) \cup {row.to} \cup post[p].todo = preview[t].to
        /\ Tos(Mine(t)) \subseteq Tos(rows[t]) \cup {row.to}
    BY <1>2, <1>7, <1>9 DEF Progress
  <2>2. /\ Tos(rows[t])' \cap post'[p].todo = {}
        /\ Tos(post[p].due)' \cap post'[p].todo = {}
        /\ Tos(rows[t])' \cup Tos(post[p].due)' \cup post'[p].todo = preview[t].to
    <3>1. post'[p].todo = post[p].todo
      BY <1>5
    <3>2. /\ Tos(rows[t])' = Tos(rows[t]) \cup {row.to}
          /\ Tos(post[p].due)' = {row.to} /\ row.to \notin post[p].todo
      BY <1>9, <1>11
    <3> QED
      BY <2>1, <3>1, <3>2
  <2>3. /\ Tos(Mine(t))' \subseteq Tos(rows[t])' \cup Tos(post[p].due)'
        /\ post'[p].due \subseteq rows'[t]
    BY <1>4, <1>5, <1>9, <1>10, <2>1
  <2>4. \A r \in post'[p].due : r.status = "sent" => r.to \in Tos(Mine(t))'
    BY <1>5, <1>10, <1>11
  <2> QED
    BY <1>1, <1>5, <2>2, <2>3, <2>4 DEF Progress
<1> QED
  BY <1>1, <1>2, <1>4, <1>5, <1>6, <1>8, <1>21, <1>22, OneAtWork, BooksOfOthers
     DEF Books

LEMMA CountBooks ==
  ASSUME ClaimInv, ClaimInv', BooksInv, NEW p \in Post, Count(p)
  PROVE  BooksInv'
<1>1. /\ p \in DOMAIN post /\ post[p].at = "count" /\ post[p] \in Submission
      /\ UNCHANGED <<members, preview, rows, handed, broken>>
  BY DEF Count, ClaimInv, TypeOK
<1>2. PICK t \in Token : t = post[p].token
  BY <1>1 DEF Submission
<1>3. Running(p)
  BY <1>1 DEF Running
<1>4. Progress(p)
  BY <1>1, <1>3 DEF BooksInv
<1>5. campaign[t] # NoCampaign /\ Claimed(t)
  BY <1>1, <1>2, <1>3 DEF ClaimInv, PostsAgree, BooksInv, Books
<1>6. /\ campaign[t] \in Campaign
      /\ campaign[t].sent \in Nat /\ campaign[t].failed \in Nat
  BY <1>5 DEF ClaimInv, TypeOK, Campaign
<1>7. PICK i \in {0, 1}, j \in {0, 1} : i + j <= 1 /\ Counted(t, i, j)
  BY <1>5 DEF Claimed
<1>8. i = LagOfSent(p) /\ j = LagOfFailed(p)
  BY <1>2, <1>3, <1>7 DEF Counted, RunningOn
<1>9. /\ i = Cardinality({r \in post[p].due : r.status = "sent"})
      /\ j = Cardinality(post[p].due \ {r \in post[p].due : r.status = "sent"})
  BY <1>1, <1>8 DEF LagOfSent, LagOfFailed, SentDue
<1>10. /\ campaign' = [campaign EXCEPT ![t] =
            [campaign[t] EXCEPT !.sent = campaign[t].sent + i,
                                !.failed = campaign[t].failed + j]]
       /\ post' = [post EXCEPT ![p] = [post[p] EXCEPT !.at = "send", !.due = {}]]
  BY <1>2, <1>9 DEF Count
<1>11. /\ OthersStay(p) /\ post'[p].token = t /\ post'[p].at = "send"
       /\ post'[p].todo = post[p].todo /\ post'[p].due = {}
  BY <1>1, <1>2, <1>10 DEF OthersStay, Submission
<1>12. /\ campaign'[t].sent = campaign[t].sent + i
       /\ campaign'[t].failed = campaign[t].failed + j
       /\ campaign'[t].count = campaign[t].count
       /\ \A k \in Token \ {t} : campaign'[k] = campaign[k]
  BY <1>6, <1>10 DEF ClaimInv, TypeOK, Campaign
<1>13. Running(p)'
  BY <1>1, <1>11 DEF Running, OthersStay
<1>14. campaign'[t] # NoCampaign
  <2>1. PostsAgree' /\ p \in DOMAIN post'
    BY <1>1, <1>11 DEF ClaimInv, OthersStay
  <2> QED
    BY <1>11, <1>13, <2>1 DEF PostsAgree
<1>15. /\ Tos(rows[t])' = Tos(rows[t]) /\ Statuses(t, "sent")' = Statuses(t, "sent")
       /\ Tos(post[p].due)' = {}
  BY <1>1, <1>11 DEF Tos, Statuses
<1>16. Tos(Mine(t))' = Tos(Mine(t))
  BY <1>1, <1>2, <1>11, MineUntouched DEF OthersStay
<1>17. \A q : RunningOn(q, t)' => q = p
  BY <1>1, <1>2, <1>3, <1>11, OneAtWork DEF RunningOn, Running, OthersStay
<1>18. ~Finished(t)'
  BY <1>11, <1>13 DEF Finished, Running
<1>19. Counted(t, 0, 0)'
  <2>1. /\ campaign'[t].sent + 0 = Cardinality(Statuses(t, "sent")')
        /\ campaign'[t].sent + campaign'[t].failed + 0 + 0 = Cardinality(rows'[t])
    BY <1>1, <1>6, <1>7, <1>12, <1>15 DEF Counted
  <2>2. LagOfSent(p)' = 0 /\ LagOfFailed(p)' = 0
    BY <1>11 DEF LagOfSent, LagOfFailed
  <2> QED
    BY <1>17, <1>18, <2>1, <2>2 DEF Counted
<1>20. Claimed(t)'
  <2>1. preview'[t] \in Preview /\ campaign'[t].count = Cardinality(preview'[t].to)
    BY <1>1, <1>5, <1>12 DEF Claimed
  <2>2. \E k, l \in {0, 1} : k + l <= 1 /\ Counted(t, k, l)'
    BY <1>19
  <2> QED
    BY <1>1, <1>5, <1>15, <1>16, <1>18, <2>1, <2>2 DEF Claimed
<1>21. Progress(p)'
  <2>1. Tos(post[p].due) \subseteq Tos(rows[t])
    BY <1>1, <1>2, <1>4 DEF Progress, Tos
  <2>2. /\ Tos(rows[t]) \cap post[p].todo = {}
        /\ Tos(rows[t]) \cup post[p].todo = preview[t].to
        /\ Tos(Mine(t)) \subseteq Tos(rows[t])
    BY <1>2, <1>4, <2>1 DEF Progress
  <2>3. post'[p].token = t /\ post'[p].todo = post[p].todo /\ preview' = preview
    BY <1>1, <1>11
  <2> QED
    BY <1>11, <1>15, <1>16, <2>2, <2>3 DEF Progress
<1> QED
  BY <1>1, <1>2, <1>3, <1>11, <1>12, <1>13, <1>14, <1>20, <1>21, OneAtWork,
     BooksOfOthers DEF Books

LEMMA DoneBooks ==
  ASSUME ClaimInv, ClaimInv', BooksInv, NEW p \in Post, Done(p)
  PROVE  BooksInv'
<1>1. /\ p \in DOMAIN post /\ post[p].at = "send" /\ post[p] \in Submission
      /\ post[p].todo = {} /\ post[p].due = {}
      /\ UNCHANGED <<members, preview, campaign, rows, handed, broken>>
  BY DEF Done, ClaimInv, TypeOK
<1>2. PICK t \in Token : t = post[p].token
  BY <1>1 DEF Submission
<1>3. Running(p)
  BY <1>1 DEF Running
<1>4. Progress(p)
  BY <1>1, <1>3 DEF BooksInv
<1>5. campaign[t] # NoCampaign /\ Claimed(t)
  BY <1>1, <1>2, <1>3 DEF ClaimInv, PostsAgree, BooksInv, Books
<1>6. OthersStay(p) /\ post'[p].token = t /\ post'[p].at = "done" /\ ~Running(p)'
  BY <1>1, <1>2 DEF Done, OthersStay, Submission, Running
<1>7. PICK i \in {0, 1}, j \in {0, 1} : i + j <= 1 /\ Counted(t, i, j)
  BY <1>5 DEF Claimed
<1>8. i = 0 /\ j = 0
  BY <1>1, <1>2, <1>3, <1>7 DEF Counted, RunningOn, LagOfSent, LagOfFailed
<1>9. \A q : ~RunningOn(q, t)'
  BY <1>1, <1>2, <1>3, <1>6, OneAtWork DEF RunningOn, Running, OthersStay
<1>10. /\ Tos(rows[t])' = Tos(rows[t]) /\ Statuses(t, "sent")' = Statuses(t, "sent")
  BY <1>1 DEF Tos, Statuses
<1>11. Tos(Mine(t))' = Tos(Mine(t))
  BY <1>1, <1>2, <1>6, MineUntouched DEF OthersStay
<1>12. Tos(rows[t]) = preview[t].to
  BY <1>1, <1>2, <1>4 DEF Progress, Tos
<1>13. Counted(t, 0, 0)'
  BY <1>1, <1>7, <1>8, <1>9, <1>10 DEF Counted
<1>14. Claimed(t)'
  <2>1. \E k, l \in {0, 1} : k + l <= 1 /\ Counted(t, k, l)'
    BY <1>13
  <2> QED
    BY <1>1, <1>5, <1>10, <1>11, <1>12, <2>1 DEF Claimed
<1> QED
  BY <1>1, <1>2, <1>3, <1>5, <1>6, <1>14, BooksOfOthers DEF Books

\* A POST that breaks off leaves the books as they are.
LEMMA BreakBooks ==
  ASSUME ClaimInv, ClaimInv', BooksInv, NEW p \in Post, Break(p)
  PROVE  BooksInv'
<1>1. /\ p \in DOMAIN post /\ post[p] \in Submission
      /\ UNCHANGED <<members, preview, campaign, rows, handed>>
      /\ broken' = broken \cup {p}
  BY DEF Break, ClaimInv, TypeOK
<1>2. PICK t \in Token : t = post[p].token
  BY <1>1 DEF Submission
<1>3. OthersStay(p) /\ post'[p].token = t /\ post'[p].at = "done" /\ ~Running(p)'
  BY <1>1, <1>2 DEF Break, OthersStay, Submission, Running
<1>4. Tos(Mine(t))' = Tos(Mine(t))
  BY <1>1, <1>2, <1>3, MineUntouched DEF OthersStay
<1>5. \A q : RunningOn(q, t)' => /\ RunningOn(q, t)
                                 /\ post'[q].at = post[q].at
                                 /\ post'[q].due = post[q].due
  BY <1>3 DEF RunningOn, Running, OthersStay
<1>6. ~Finished(t)'
  BY <1>1, <1>3 DEF Finished, OthersStay
<1>7. campaign[t] # NoCampaign => preview[t] \in Preview
  BY DEF BooksInv, Books, Claimed
<1>8. Books(t)'
  BY <1>1, <1>4, <1>5, <1>6, <1>7, BooksUntouched DEF BooksInv
<1> QED
  BY <1>1, <1>2, <1>3, <1>8, BooksOfOthers

LEMMA StepBooksInv == ClaimInv /\ BooksInv /\ [Next]_vars => BooksInv'
<1> SUFFICES ASSUME ClaimInv, BooksInv, [Next]_vars  PROVE  BooksInv'
  OBVIOUS
<1>1. ClaimInv'
  BY StepClaimInv
<1>2. ASSUME UNCHANGED <<preview, campaign, rows, post, handed, broken>>
      PROVE  BooksInv'
  BY <1>1, <1>2, BooksBeforeClaim DEF Running
<1>3. CASE UNCHANGED vars
  BY <1>2, <1>3 DEF vars
<1>4. ASSUME NEW m \in Mobile, Moves(m)  PROVE  BooksInv'
  BY <1>2, <1>4 DEF Moves
<1>5. ASSUME NEW t \in Token, NEW by \in Manager, NEW audience \in Audience,
             NEW typed \in SUBSET Mobile, NEW text \in Message,
             MakePreview(t, by, audience, typed, text)
      PROVE  BooksInv'
  <2>1. /\ UNCHANGED <<campaign, rows, post, handed, broken>>
        /\ preview[t] \notin Preview
        /\ \A k \in Token \ {t} : preview'[k] = preview[k]
    BY <1>5, NoneAssumption DEF MakePreview, ClaimInv, TypeOK
  <2> QED
    BY <1>1, <2>1, BooksBeforeClaim DEF Running
<1>6. ASSUME NEW t \in Token, Expire(t)  PROVE  BooksInv'
  <2>1. /\ UNCHANGED <<campaign, rows, post, handed, broken>>
        /\ preview[t] \in Preview
        /\ \A k \in Token \ {t} : preview'[k] = preview[k]
        /\ preview'[t] = [preview[t] EXCEPT !.fresh = FALSE]
    BY <1>6 DEF Expire, ClaimInv, TypeOK, Preview
  <2>2. preview'[t] \in Preview /\ preview'[t].to = preview[t].to
    BY <2>1 DEF Preview
  <2> QED
    BY <1>1, <2>1, <2>2, BooksBeforeClaim DEF Running
<1>7. ASSUME NEW p \in Post, NEW t \in Token, NEW by \in Manager,
             NEW audience \in Audience, NEW typed \in SUBSET Mobile,
             NEW text \in Message, Confirm(p, t, by, audience, typed, text)
      PROVE  BooksInv'
  <2>1. /\ UNCHANGED <<preview, campaign, rows, handed, broken>>
        /\ p \notin DOMAIN post /\ DOMAIN post' = DOMAIN post \cup {p}
        /\ \A q \in DOMAIN post : post'[q] = post[q]
        /\ post'[p].at = "claim"
    BY <1>7 DEF Confirm
  <2>2. \A q \in DOMAIN post' : Running(q)' => q \in DOMAIN post
    BY <2>1 DEF Running
  <2> QED
    BY <1>1, <2>1, <2>2, BooksBeforeClaim
<1>8. ASSUME NEW p \in Post, Claim(p)  PROVE  BooksInv'
  BY <1>1, <1>8, ClaimBooks
<1>9. ASSUME NEW p \in Post, NEW m \in Mobile, Send(p, m)  PROVE  BooksInv'
  BY <1>1, <1>9, SendBooks
<1>10. ASSUME NEW p \in Post, Dispatch(p)  PROVE  BooksInv'
  BY <1>1, <1>10, DispatchBooks
<1>11. ASSUME NEW p \in Post, Count(p)  PROVE  BooksInv'
  BY <1>1, <1>11, CountBooks
<1>12. ASSUME NEW p \in Post, Done(p)  PROVE  BooksInv'
  BY <1>1, <1>12, DoneBooks
<1>13. ASSUME NEW p \in Post, Break(p)  PROVE  BooksInv'
  BY <1>1, <1>13, BreakBooks
<1> QED
  BY <1>3, <1>4, <1>5, <1>6, <1>7, <1>8, <1>9, <1>10, <1>11, <1>12, <1>13 DEF Next

-----------------------------------------------------------------------------
\* What the theorems rest on, together: one POST of a token has the claim, and
\* the books follow it from recipient to recipient.
IndInv == ClaimInv /\ BooksInv

\* Every reachable state of the campaigns (views.py sms_send) satisfies IndInv.
THEOREM CampaignInvariance == Spec => []IndInv
<1>1. Init => IndInv
  <2> SUFFICES ASSUME Init  PROVE  BooksInv
    BY InitClaimInv DEF IndInv
  <2>1. DOMAIN post = {}
    BY DEF Init
  <2>2. \A t \in Token : Books(t)
    BY DEF Init, Books
  <2> QED
    BY <2>1, <2>2 DEF BooksInv
<1>2. IndInv /\ [Next]_vars => IndInv'
  BY StepClaimInv, StepBooksInv DEF IndInv
<1> QED
  BY <1>1, <1>2, PTL DEF Spec

\* Previews, campaigns, dispatch rows and POSTs keep their types.
THEOREM CampaignTypeCorrect == Spec => []TypeOK
<1>1. IndInv => TypeOK
  BY DEF IndInv, ClaimInv
<1> QED
  BY <1>1, CampaignInvariance, PTL

\* "Durable at-most-once submission" (SMSCampaign): nobody gets the message of
\* one preview twice, whatever POSTs repeat, overlap or break off.
THEOREM SubmissionIsAtMostOnce == Spec => []AtMostOnce
<1>1. IndInv => AtMostOnce
  <2> SUFFICES ASSUME IndInv, NEW h \in handed, NEW g \in handed, h.to = g.to,
                      post[h.post].token = post[g.post].token
               PROVE  h = g
    BY DEF AtMostOnce
  <2>1. h.post \in DOMAIN post /\ g.post \in DOMAIN post
    BY DEF IndInv, ClaimInv, HandedUnderClaim
  <2>2. h.post = g.post
    BY <2>1 DEF IndInv, ClaimInv, OneClaim, Involved
  <2> QED
    BY <2>2 DEF IndInv, ClaimInv, TypeOK
<1> QED
  BY <1>1, CampaignInvariance, PTL

\* "Actor-bound SMS review" (sms_preview.py): what the provider is handed is
\* what the manager who confirmed had in the preview.
THEOREM SentAsReviewed == Spec => []AsReviewed
<1>1. IndInv => AsReviewed
  <2> SUFFICES ASSUME IndInv, NEW h \in handed
               PROVE  LET p == post[h.post]
                          v == preview[p.token]
                      IN h.to \in v.to /\ p.text = v.text /\ p.by = v.by
    BY DEF AsReviewed
  <2>1. h.post \in DOMAIN post /\ h.to \in preview[post[h.post].token].to
    BY DEF IndInv, ClaimInv, HandedUnderClaim
  <2> QED
    BY <2>1 DEF IndInv, ClaimInv, PostsAgree
<1> QED
  BY <1>1, CampaignInvariance, PTL

\* A campaign's counts, its dispatch rows and what the provider took agree but
\* for the recipient at work, and in full once its POST is done.
THEOREM BooksAlwaysBalance == Spec => []BooksBalance
<1>1. IndInv => BooksBalance
  BY BooksInvEnough DEF IndInv
<1> QED
  BY <1>1, CampaignInvariance, PTL
-----------------------------------------------------------------------------
(* A campaign implements the sending of a reviewed message. *)

ReviewsOf == [t \in Token |-> ReviewOf(t)]
Begun == {t \in Token : campaign[t] # NoCampaign}
Messages == {MessageOf(h) : h \in handed}

Shown == <<ReviewsOf, Begun, AtWork, Messages, rows>>

\* What is at work are the tokens of the running POSTs.
LEMMA AtWorkIs ==
  /\ AtWork = {post[p].token : p \in {q \in DOMAIN post : Running(q)}}
  /\ AtWork' = {post'[p].token : p \in {q \in DOMAIN post' : Running(q)'}}
BY DEF AtWork, Running

\* A POST goes on as what it is: the messages that left stay what they are.
LEMMA MessagesStay ==
  ASSUME ClaimInv,
         \A q \in DOMAIN post : /\ post'[q].token = post[q].token
                                /\ post'[q].by = post[q].by
                                /\ post'[q].text = post[q].text
  PROVE  /\ \A h \in handed : MessageOf(h)' = MessageOf(h)
         /\ handed' = handed => Messages' = Messages
<1>1. \A h \in handed : MessageOf(h)' = MessageOf(h)
  BY DEF ClaimInv, HandedUnderClaim, MessageOf
<1> QED
  BY <1>1 DEF Messages

\* Nobody's turn ends or begins while the same POSTs run for the same tokens.
LEMMA WorkStays ==
  ASSUME \A q \in DOMAIN post' : Running(q)' <=> q \in DOMAIN post /\ Running(q),
         \A q \in DOMAIN post : q \in DOMAIN post' /\ post'[q].token = post[q].token
  PROVE  AtWork' = AtWork
<1>1. {q \in DOMAIN post' : Running(q)'} = {q \in DOMAIN post : Running(q)}
  OBVIOUS
<1> QED
  BY <1>1, AtWorkIs

\* Who was sent to, and who is on record, in the words of ReviewedSending.
LEMMA ReachedIs ==
  ASSUME NEW t
  PROVE  /\ {o.to : o \in {x \in Messages : x.of = t}} = Tos(Mine(t))
         /\ {row.to : row \in rows[t]} = Tos(rows[t])
<1>1. \A h : MessageOf(h).of = post[h.post].token /\ MessageOf(h).to = h.to
  BY DEF MessageOf
<1> QED
  BY <1>1 DEF Messages, Mine, Tos

LEMMA ReviewIs ==
  ASSUME ClaimInv, NEW p \in DOMAIN post
  PROVE  LET v == preview[post[p].token]
             r == [by |-> post[p].by, to |-> v.to, text |-> post[p].text]
         IN  /\ post[p].token \in Token
             /\ ReviewOf(post[p].token) = {r}
             /\ r.to = v.to /\ r.by = post[p].by /\ r.text = post[p].text
<1>1. post[p].token \in Token
  BY DEF ClaimInv, TypeOK, Submission
<1>2. /\ preview[post[p].token] \in Preview
      /\ preview[post[p].token].by = post[p].by
      /\ preview[post[p].token].text = post[p].text
  BY DEF ClaimInv, PostsAgree
<1>3. preview[post[p].token] # NoPreview
  BY <1>2, NoneAssumption
<1> QED
  BY <1>1, <1>2, <1>3 DEF ReviewOf

\* A preview is the review of its token; that it ages does not show.
LEMMA PreviewShows ==
  ASSUME IndInv, NEW t \in Token, NEW by \in Manager, NEW audience \in Audience,
         NEW typed \in SUBSET Mobile, NEW text \in Message,
         MakePreview(t, by, audience, typed, text)
  PROVE  Sending!Next
<1> DEFINE to == Recipients(audience, typed)
           r == [by |-> by, to |-> to, text |-> text]
           new == [by |-> by, audience |-> audience, to |-> to, text |-> text,
                   fresh |-> TRUE]
<1>1. /\ preview[t] = NoPreview
      /\ UNCHANGED <<campaign, rows, post, handed>>
      /\ preview' = [preview EXCEPT ![t] = new]
  BY DEF MakePreview
<1>2. to \in SUBSET Mobile
  BY DEF Recipients, IndInv, ClaimInv, TypeOK
<1>3. new \in Preview
  BY <1>2 DEF Preview
<1>4. preview'[t] = new /\ \A k \in Token \ {t} : preview'[k] = preview[k]
  BY <1>1 DEF IndInv, ClaimInv, TypeOK
<1>5. ReviewOf(t) = {} /\ ReviewOf(t)' = {r}
  <2>1. new # NoPreview
    BY <1>3, NoneAssumption
  <2>2. new.by = by /\ new.to = to /\ new.text = text
    OBVIOUS
  <2> HIDE DEF new, to
  <2>3. ReviewOf(t)' = {[by |-> new.by, to |-> new.to, text |-> new.text]}
    BY <1>4, <2>1 DEF ReviewOf
  <2> QED
    BY <1>1, <2>2, <2>3 DEF ReviewOf
<1>6. \A k \in Token \ {t} : ReviewOf(k)' = ReviewOf(k)
  BY <1>4 DEF ReviewOf
<1>7. ReviewsOf' = [ReviewsOf EXCEPT ![t] = {r}]
  BY <1>5, <1>6 DEF ReviewsOf
<1>8. Begun' = Begun /\ AtWork' = AtWork /\ Messages' = Messages
  BY <1>1 DEF Begun, AtWork, Messages, MessageOf
<1>9. r \in Sending!Review
  BY <1>2 DEF Sending!Review
<1>10. Sending!Look(t, r)
  BY <1>1, <1>5, <1>7, <1>8 DEF Sending!Look, ReviewsOf, Begun, Messages
<1> QED
  BY <1>9, <1>10 DEF Sending!Next

LEMMA ExpiryHidden ==
  ASSUME IndInv, NEW t \in Token, Expire(t)
  PROVE  UNCHANGED Shown
<1>1. preview[t] \in Preview
  BY DEF Expire, IndInv, ClaimInv, TypeOK
<1>2. /\ UNCHANGED <<campaign, rows, post, handed>>
      /\ \A k \in Token \ {t} : preview'[k] = preview[k]
      /\ preview'[t] = [preview[t] EXCEPT !.fresh = FALSE]
  BY <1>1 DEF Expire, IndInv, ClaimInv, TypeOK, Preview
<1>3. /\ preview'[t] \in Preview /\ preview'[t].by = preview[t].by
      /\ preview'[t].text = preview[t].text /\ preview'[t].to = preview[t].to
  BY <1>1, <1>2 DEF Preview
<1>4. \A k \in Token : ReviewOf(k)' = ReviewOf(k)
  BY <1>1, <1>2, <1>3, NoneAssumption DEF ReviewOf
<1>5. ReviewsOf' = ReviewsOf
  BY <1>4 DEF ReviewsOf
<1> QED
  BY <1>2, <1>5 DEF Shown, Begun, AtWork, Messages, MessageOf

\* A POST that waits for the claim does not show.
LEMMA WaitingHidden ==
  ASSUME IndInv, NEW p \in Post, NEW t \in Token, NEW by \in Manager,
         NEW audience \in Audience, NEW typed \in SUBSET Mobile,
         NEW text \in Message, Confirm(p, t, by, audience, typed, text)
  PROVE  UNCHANGED Shown
<1>1. /\ UNCHANGED <<preview, campaign, rows, handed>>
      /\ p \notin DOMAIN post /\ DOMAIN post' = DOMAIN post \cup {p}
      /\ \A q \in DOMAIN post : post'[q] = post[q]
      /\ post'[p].at = "claim"
  BY DEF Confirm
<1>2. AtWork' = AtWork
  BY <1>1, WorkStays DEF Running
<1>3. Messages' = Messages
  BY <1>1, MessagesStay DEF IndInv
<1> QED
  BY <1>1, <1>2, <1>3 DEF Shown, ReviewsOf, ReviewOf, Begun

\* What a POST that goes on leaves as it is.
GoesOn(p) ==
  /\ p \in DOMAIN post /\ OthersStay(p)
  /\ post'[p].token = post[p].token
  /\ post'[p].by = post[p].by /\ post'[p].text = post[p].text
  /\ UNCHANGED preview
  /\ \A t \in Token : t # post[p].token => campaign'[t] = campaign[t]

LEMMA GoingOn ==
  ASSUME IndInv, NEW p, GoesOn(p)
  PROVE  /\ UNCHANGED ReviewsOf
         /\ \A h \in handed : MessageOf(h)' = MessageOf(h)
         /\ handed' = handed => UNCHANGED Messages
         /\ (Running(p)' <=> Running(p)) => UNCHANGED AtWork
         /\ Running(p)' /\ ~Running(p) => AtWork' = AtWork \cup {post[p].token}
         /\ ~Running(p)' /\ Running(p) => AtWork' = AtWork \ {post[p].token}
<1>1. \A q \in DOMAIN post : /\ post'[q].token = post[q].token
                             /\ post'[q].by = post[q].by
                             /\ post'[q].text = post[q].text
  BY DEF GoesOn, OthersStay
<1>2. /\ \A h \in handed : MessageOf(h)' = MessageOf(h)
      /\ handed' = handed => UNCHANGED Messages
  BY <1>1, MessagesStay DEF IndInv
<1>3. UNCHANGED ReviewsOf
  BY DEF GoesOn, ReviewsOf, ReviewOf
<1>4. DOMAIN post' = DOMAIN post /\ p \in DOMAIN post
  BY DEF GoesOn, OthersStay
<1>5. \A q \in DOMAIN post \ {p} : Running(q)' <=> Running(q)
  BY DEF GoesOn, OthersStay, Running
<1>6. (Running(p)' <=> Running(p)) => UNCHANGED AtWork
  BY <1>1, <1>4, <1>5, WorkStays
<1> DEFINE others == {post[q].token : q \in {x \in DOMAIN post \ {p} : Running(x)}}
<1>7. AtWork = others \cup IF Running(p) THEN {post[p].token} ELSE {}
  BY <1>4, AtWorkIs
<1>8. AtWork' = others \cup IF Running(p)' THEN {post[p].token} ELSE {}
  BY <1>1, <1>4, <1>5, AtWorkIs
<1>9. Running(p) => post[p].token \notin others
  BY <1>4, OneAtWork DEF IndInv
<1> HIDE DEF others
<1> QED
  BY <1>2, <1>3, <1>6, <1>7, <1>8, <1>9

\* The POST with the claim begins; the one without ends unseen.
LEMMA ClaimShows ==
  ASSUME IndInv, NEW p \in Post, Claim(p)
  PROVE  Sending!Next \/ UNCHANGED Shown
<1>1. p \in DOMAIN post /\ post[p].at = "claim" /\ post[p] \in Submission
  BY DEF Claim, IndInv, ClaimInv, TypeOK
<1>2. PICK t \in Token : t = post[p].token
  BY <1>1 DEF Submission
<1>3. ReviewOf(t) # {}
  BY <1>1, <1>2, ReviewIs DEF IndInv
<1>4. UNCHANGED <<preview, rows, handed>>
  BY DEF Claim
<1>5. CASE /\ campaign[t] = NoCampaign
           /\ campaign' = [campaign EXCEPT ![t] =
                [count |-> Cardinality(post[p].todo), sent |-> 0, failed |-> 0]]
           /\ post' = [post EXCEPT ![p].at = "send"]
  <2>1. OthersStay(p) /\ post'[p] = [post[p] EXCEPT !.at = "send"]
    BY <1>1, <1>5 DEF OthersStay
  <2>2. /\ post'[p].token = t /\ post'[p].by = post[p].by
        /\ post'[p].text = post[p].text /\ post'[p].at = "send"
    BY <1>1, <1>2, <2>1 DEF Submission
  <2>3. Cardinality(post[p].todo) \in Nat
    BY <1>1, MobileFacts DEF Submission
  <2>4. /\ campaign'[t] \in Campaign
        /\ \A k \in Token \ {t} : campaign'[k] = campaign[k]
    BY <1>5, <2>3 DEF IndInv, ClaimInv, TypeOK, Campaign
  <2>5. GoesOn(p)
    BY <1>1, <1>2, <1>4, <2>1, <2>2, <2>4 DEF GoesOn
  <2>6. Running(p)' /\ ~Running(p)
    BY <1>1, <2>1, <2>2 DEF Running, OthersStay
  <2>7. UNCHANGED <<ReviewsOf, Messages>> /\ AtWork' = AtWork \cup {t}
    BY <1>2, <1>4, <2>5, <2>6, GoingOn
  <2>8. Begun' = Begun \cup {t} /\ t \notin Begun
    BY <1>5, <2>4, NoneAssumption DEF Begun
  <2>9. Sending!Begin(t)
    BY <1>3, <1>4, <2>7, <2>8 DEF Sending!Begin, ReviewsOf, Begun, Messages
  <2> QED
    BY <2>9 DEF Sending!Next
<1>6. CASE campaign[t] # NoCampaign /\ UNCHANGED campaign
           /\ post' = [post EXCEPT ![p].at = "done"]
  <2>1. OthersStay(p) /\ post'[p] = [post[p] EXCEPT !.at = "done"]
    BY <1>1, <1>6 DEF OthersStay
  <2>2. /\ post'[p].token = t /\ post'[p].by = post[p].by
        /\ post'[p].text = post[p].text /\ post'[p].at = "done"
    BY <1>1, <1>2, <2>1 DEF Submission
  <2>3. GoesOn(p) /\ ~Running(p) /\ ~Running(p)'
    BY <1>1, <1>2, <1>4, <1>6, <2>1, <2>2 DEF GoesOn, Running
  <2> QED
    BY <1>4, <1>6, <2>3, GoingOn DEF Shown, Begun
<1> QED
  BY <1>2, <1>5, <1>6 DEF Claim, Unclaimed

\* A message that leaves is the next one; one that does not leaves no trace yet.
LEMMA SendShows ==
  ASSUME IndInv, NEW p \in Post, NEW m \in Mobile, Send(p, m)
  PROVE  Sending!Next \/ UNCHANGED Shown
<1>1. /\ p \in DOMAIN post /\ post[p] \in Submission /\ post[p].at = "send"
      /\ post[p].due = {} /\ m \in post[p].todo
  BY DEF Send, IndInv, ClaimInv, TypeOK
<1>2. PICK t \in Token : t = post[p].token
  BY <1>1 DEF Submission
<1>3. UNCHANGED <<preview, campaign, rows>>
  BY DEF Send
<1>4. PICK status \in {"sent", "failed"} :
        post' = [post EXCEPT ![p] =
          [@ EXCEPT !.todo = post[p].todo \ {m},
                    !.due = {[to |-> m, status |-> status]}]]
  BY DEF Send
<1>5. OthersStay(p)
  BY <1>1, <1>4 DEF OthersStay
<1>6. /\ post'[p].token = t /\ post'[p].by = post[p].by
      /\ post'[p].text = post[p].text /\ post'[p].at = "send"
  BY <1>1, <1>2, <1>4 DEF Submission
<1>7. GoesOn(p) /\ Running(p) /\ Running(p)'
  BY <1>1, <1>2, <1>3, <1>5, <1>6 DEF GoesOn, Running, OthersStay
<1>8. UNCHANGED <<ReviewsOf, Begun, AtWork>>
  BY <1>3, <1>7, GoingOn DEF Begun
<1>9. CASE handed' = handed
  BY <1>3, <1>7, <1>8, <1>9, GoingOn DEF Shown
<1>10. CASE handed' = handed \cup {[to |-> m, post |-> p]}
  <2> DEFINE h == [to |-> m, post |-> p]
             r == [by |-> post[p].by, to |-> preview[t].to, text |-> post[p].text]
  <2>1. MessageOf(h)' = [of |-> t, to |-> m, by |-> r.by, text |-> r.text,
                         carrier |-> p]
    BY <1>6 DEF MessageOf
  <2>2. \A g \in handed : MessageOf(g)' = MessageOf(g)
    BY <1>7, GoingOn
  <2>3. Messages' = Messages \cup {MessageOf(h)'}
    BY <1>10, <2>2 DEF Messages
  <2>4. ReviewOf(t) = {r}
    BY <1>1, <1>2, ReviewIs DEF IndInv
  <2>5. Progress(p)
    BY <1>1, <1>7 DEF IndInv, BooksInv
  <2>6. /\ m \in r.to \ Tos(rows[t])
        /\ Tos(Mine(t)) \subseteq Tos(rows[t])
    BY <1>1, <1>2, <2>5 DEF Progress, Tos
  <2>7. t \in AtWork
    BY <1>1, <1>2, <1>7, AtWorkIs
  <2> HIDE DEF r
  <2>8. Sending!Take(t, p)
    BY <1>2, <1>3, <1>8, <2>1, <2>3, <2>4, <2>6, <2>7, ReachedIs
       DEF Sending!Take, Sending!Reached, Sending!Served, ReviewsOf, Begun, Messages
  <2> QED
    BY <2>8 DEF Sending!Next
<1> QED
  BY <1>9, <1>10 DEF Send

\* Its row is the record of whose turn it was.
LEMMA DispatchShows ==
  ASSUME IndInv, NEW p \in Post, Dispatch(p)
  PROVE  Sending!Next
<1>1. /\ p \in DOMAIN post /\ post[p] \in Submission /\ post[p].at = "send"
      /\ post[p].due # {}
  BY DEF Dispatch, IndInv, ClaimInv, TypeOK
<1>2. PICK t \in Token : t = post[p].token
  BY <1>1 DEF Submission
<1>3. PICK row \in Row : post[p].due = {row}
  BY <1>1 DEF IndInv, ClaimInv, PostsAgree
<1>4. /\ UNCHANGED <<preview, campaign, handed>>
      /\ rows' = [rows EXCEPT ![t] = @ \cup {row}]
      /\ post' = [post EXCEPT ![p].at = "count"]
  BY <1>2, <1>3 DEF Dispatch, Recorded
<1>5. OthersStay(p)
  BY <1>1, <1>4 DEF OthersStay
<1>6. /\ post'[p].token = t /\ post'[p].by = post[p].by
      /\ post'[p].text = post[p].text /\ post'[p].at = "count"
  BY <1>1, <1>2, <1>4 DEF Submission
<1>7. GoesOn(p) /\ Running(p) /\ Running(p)'
  BY <1>1, <1>2, <1>4, <1>5, <1>6 DEF GoesOn, Running, OthersStay
<1>8. UNCHANGED <<ReviewsOf, Begun, AtWork, Messages>>
  BY <1>4, <1>7, GoingOn DEF Begun
<1> DEFINE r == [by |-> post[p].by, to |-> preview[t].to, text |-> post[p].text]
<1>9. ReviewOf(t) = {r} /\ r.to = preview[t].to
  BY <1>1, <1>2, ReviewIs DEF IndInv
<1>10. Progress(p)
  BY <1>1, <1>7 DEF IndInv, BooksInv
<1>11. Tos(post[p].due) = {row.to}
  BY <1>3 DEF Tos
<1>12. /\ row.to \in r.to \ Tos(rows[t])
       /\ Tos(Mine(t)) \subseteq Tos(rows[t]) \cup {row.to}
       /\ row.status = "sent" => row.to \in Tos(Mine(t))
  BY <1>1, <1>2, <1>3, <1>9, <1>10, <1>11 DEF Progress
<1>13. t \in AtWork
  BY <1>1, <1>2, <1>7, AtWorkIs
<1>14. /\ row = [to |-> row.to, status |-> row.status]
       /\ row.status \in {"sent", "failed"}
  BY DEF Row
<1> HIDE DEF r
<1>15. Sending!Record(t)
  <2>1. ReviewsOf[t] = {r}
    BY <1>2, <1>9 DEF ReviewsOf
  <2>2. /\ row.to \in r.to \ {x.to : x \in rows[t]}
        /\ {o.to : o \in {x \in Messages : x.of = t}} \subseteq
             {x.to : x \in rows[t]} \cup {row.to}
        /\ row.status = "sent" =>
             row.to \in {o.to : o \in {x \in Messages : x.of = t}}
    BY <1>12, ReachedIs
  <2>3. rows' = [rows EXCEPT ![t] =
                  rows[t] \cup {[to |-> row.to, status |-> row.status]}]
    BY <1>4, <1>14
  <2>4. \E q \in {r} : \E m \in q.to \ {x.to : x \in rows[t]},
                        status \in {"sent", "failed"} :
          /\ {o.to : o \in {x \in Messages : x.of = t}} \subseteq
               {x.to : x \in rows[t]} \cup {m}
          /\ status = "sent" =>
               m \in {o.to : o \in {x \in Messages : x.of = t}}
          /\ rows' = [rows EXCEPT ![t] =
                         rows[t] \cup {[to |-> m, status |-> status]}]
    BY <1>14, <2>2, <2>3
  <2> QED
    BY <1>8, <1>13, <2>1, <2>4
       DEF Sending!Record, Sending!Reached, Sending!Served, ReviewsOf, Begun,
           Messages
<1> QED
  BY <1>15 DEF Sending!Next

LEMMA CountHidden ==
  ASSUME IndInv, IndInv', NEW p \in Post, Count(p)
  PROVE  UNCHANGED Shown
<1>1. p \in DOMAIN post /\ post[p] \in Submission /\ post[p].at = "count"
  BY DEF Count, IndInv, ClaimInv, TypeOK
<1>2. PICK t \in Token : t = post[p].token
  BY <1>1 DEF Submission
<1>3. /\ UNCHANGED <<preview, rows, handed>>
      /\ post' = [post EXCEPT ![p] = [@ EXCEPT !.at = "send", !.due = {}]]
      /\ \A k \in Token \ {t} : campaign'[k] = campaign[k]
  BY <1>2 DEF Count, IndInv, ClaimInv, TypeOK
<1>4. OthersStay(p)
  BY <1>1, <1>3 DEF OthersStay
<1>5. /\ post'[p].token = t /\ post'[p].by = post[p].by
      /\ post'[p].text = post[p].text /\ post'[p].at = "send"
  BY <1>1, <1>2, <1>3 DEF Submission
<1>6. GoesOn(p) /\ Running(p) /\ Running(p)'
  BY <1>1, <1>2, <1>3, <1>4, <1>5 DEF GoesOn, Running, OthersStay
<1>7. campaign[t] # NoCampaign /\ campaign'[t] # NoCampaign
  BY <1>1, <1>2, <1>4, <1>5, <1>6 DEF IndInv, ClaimInv, PostsAgree, OthersStay
<1>8. Begun' = Begun
  BY <1>3, <1>7 DEF Begun
<1> QED
  BY <1>3, <1>6, <1>8, GoingOn DEF Shown

\* A POST that is done or ends ends the sending, if it had the claim.
LEMMA EndShows ==
  ASSUME IndInv, NEW p \in Post, Done(p) \/ Break(p)
  PROVE  Sending!Next \/ UNCHANGED Shown
<1>1. p \in DOMAIN post /\ post[p] \in Submission
  BY DEF Done, Break, IndInv, ClaimInv, TypeOK
<1>2. PICK t \in Token : t = post[p].token
  BY <1>1 DEF Submission
<1>3. /\ UNCHANGED <<preview, campaign, rows, handed>>
      /\ post' = [post EXCEPT ![p].at = "done"]
  BY DEF Done, Break
<1>4. OthersStay(p)
  BY <1>1, <1>3 DEF OthersStay
<1>5. /\ post'[p].token = t /\ post'[p].by = post[p].by
      /\ post'[p].text = post[p].text /\ post'[p].at = "done"
  BY <1>1, <1>2, <1>3 DEF Submission
<1>6. GoesOn(p) /\ ~Running(p)'
  BY <1>1, <1>2, <1>3, <1>4, <1>5 DEF GoesOn, Running
<1>7. UNCHANGED <<ReviewsOf, Begun, Messages, rows>>
  BY <1>3, <1>6, GoingOn DEF Begun
<1>8. CASE ~Running(p)
  BY <1>6, <1>7, <1>8, GoingOn DEF Shown
<1>9. CASE Running(p)
  <2>1. AtWork' = AtWork \ {t} /\ t \in AtWork
    BY <1>1, <1>2, <1>6, <1>9, GoingOn, AtWorkIs
  <2>2. Sending!End(t)
    BY <1>7, <2>1 DEF Sending!End, ReviewsOf, Begun, Messages
  <2> QED
    BY <2>2 DEF Sending!Next
<1> QED
  BY <1>8, <1>9

LEMMA StepKeepsSending ==
  IndInv /\ IndInv' /\ [Next]_vars => [Sending!Next]_Shown
<1> SUFFICES ASSUME IndInv, IndInv', [Next]_vars
             PROVE  Sending!Next \/ UNCHANGED Shown
  OBVIOUS
<1>1. ASSUME UNCHANGED <<preview, campaign, rows, post, handed>>
      PROVE  UNCHANGED Shown
  BY <1>1 DEF Shown, ReviewsOf, ReviewOf, Begun, AtWork, Messages, MessageOf
<1>2. CASE UNCHANGED vars
  BY <1>1, <1>2 DEF vars
<1>3. CASE \E m \in Mobile : Moves(m)
  BY <1>1, <1>3 DEF Moves
<1>4. ASSUME NEW t \in Token, NEW by \in Manager, NEW audience \in Audience,
             NEW typed \in SUBSET Mobile, NEW text \in Message,
             \/ MakePreview(t, by, audience, typed, text)
             \/ \E p \in Post : Confirm(p, t, by, audience, typed, text)
      PROVE  Sending!Next \/ UNCHANGED Shown
  BY <1>4, PreviewShows, WaitingHidden
<1>5. CASE \E t \in Token : Expire(t)
  BY <1>5, ExpiryHidden
<1>6. ASSUME NEW p \in Post,
             \/ Claim(p) \/ Dispatch(p) \/ Count(p) \/ Done(p) \/ Break(p)
             \/ \E m \in Mobile : Send(p, m)
      PROVE  Sending!Next \/ UNCHANGED Shown
  BY <1>6, ClaimShows, DispatchShows, CountHidden, EndShows, SendShows
<1> QED
  BY <1>2, <1>3, <1>4, <1>5, <1>6 DEF Next

\* Campaigns (views.py sms_send, sms_preview.py) implement ReviewedSending:
\* whatever is confirmed twice, overlaps or breaks off, one sending comes of a
\* preview, in turn, on record and never resumed.
THEOREM CampaignsImplementSending == Spec => KeepsReviewedSending
<1>1. Init => Sending!Init
  BY DEF Init, Sending!Init, ReviewOf, AtWork
<1>2. IndInv /\ IndInv' /\ [Next]_vars =>
        [Sending!Next]_<<[t \in Token |-> ReviewOf(t)],
                         {t \in Token : campaign[t] # NoCampaign}, AtWork,
                         {MessageOf(h) : h \in handed}, rows>>
  BY StepKeepsSending DEF Shown, ReviewsOf, Begun, Messages
<1> QED
  BY <1>1, <1>2, CampaignInvariance, PTL
     DEF Spec, KeepsReviewedSending, Sending!Spec
=============================================================================
