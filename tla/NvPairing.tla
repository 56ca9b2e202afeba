----------------------------- MODULE NvPairing -----------------------------
(***************************************************************************)
(* client.pair and client.trustHost: the GameStream pairing handshake of   *)
(* src/src/net/nv_pairing.cpp, run by the handler in                       *)
(* src/src/client/stream_main.cpp against a host it can only talk to by    *)
(* one-shot requests.                                                      *)
(*                                                                         *)
(* One address is modelled.  More than one machine may answer it, because  *)
(* tcp_connect takes the first that accepts of all addresses the name      *)
(* resolves to, anew for every request.  A request may not arrive, its     *)
(* answer may be lost or cut, and the host's owner and other clients act   *)
(* in between.  Machines stand for their certificates.                     *)
(*                                                                         *)
(* Cryptography is symbolic: what is decrypted with another key is         *)
(* Garbage, hashes and signatures are the tuples of what goes into them.   *)
(***************************************************************************)
EXTENDS NvReply

CONSTANTS
    Machines,       \* the machines that may answer the address
    Home,           \* the only one that does once the network is calm
    Restless,       \* bound: the machines that others act on
    OldGen,         \* the machines of generation 6 or less, which use SHA-1
    None            \* no certificate

ASSUME MachinesAssumption ==
    /\ IsFiniteSet(Machines)
    /\ Home \in Machines /\ Restless \cup OldGen \subseteq Machines /\ None \notin Machines

VARIABLES
    hosts,          \* hosts[m]: machine m (external)
    calm,           \* the network is reliable from now on and nobody interferes; the PIN
                    \* is typed right, though perhaps too late
    pin,            \* the registry: the certificate pinned for the address
    pc,             \* where the handler on the main thread is
    att,            \* the local variables of nv_pair
    answer          \* the last answer of a handler

pairVars == <<hosts, calm, pin, pc, att, answer>>

Garbage == <<"garbage">>
Certs   == Machines \cup {None}

\* Random salts: one that no attempt in memory anywhere uses.
Salts == 1 .. Cardinality(Machines) + 1

-----------------------------------------------------------------------------
(* pairing_crypto.cpp                                                      *)

DeriveAesKey(salt, typed, gen7) == [salt |-> salt, typed |-> typed, gen7 |-> gen7]
NoAesKey  == DeriveAesKey(0, "", FALSE)
AesEncrypt(text, key) == [key |-> key, text |-> text]
AesDecrypt(cipher, key) == IF cipher.key = key THEN cipher.text ELSE Garbage
GenHash(gen7, parts) == <<"hash", gen7>> \o parts
SignMessage(text, signer) == <<"signature", signer, text>>
VerifySignature(text, signature, cert) == signature = SignMessage(text, cert)

\* What is drawn for an attempt, named after its salt.
RandomChallenge(salt) == <<"challenge", salt>>
ClientSecret(salt)    == <<"secret", salt>>

-----------------------------------------------------------------------------
(* A GameStream host, external: one pairing session per machine, its stages*)
(* in order; trust is granted by stage 4 and needed for HTTPS.             *)

NoPairing == [owner |-> "nobody", key |-> NoAesKey, stage |-> 0, hash |-> Garbage]

HostChallenge(m, key) == <<"host challenge", m, key.salt>>
HostSecret(m, key)    == <<"host secret", m, key.salt>>

HostInfo(m) ==
    Answer("200", <<Element("HttpsPort", 47984),
                    Element("appversion", IF m \in OldGen THEN 3 ELSE 7),
                    Element("currentgame", hosts[m].app)>>)

Reply(host, xml) == [host |-> host, xml |-> xml]
Refusal(h)  == Reply(h, Answer("400", <<>>))
PairFields(f) == Answer("200", <<Element("paired", "1")>> \o f)

\* What machine m does with a request of ours and answers, request by request.
Ready(m, n)  == hosts[m].pairing.owner = "us" /\ hosts[m].pairing.stage = n
Keeps(m, s)  == [hosts[m] EXCEPT !.pairing = s]

OnServerInfo(m) == Reply(hosts[m], HostInfo(m))

OnGetServerCert(m, salt, typed) ==
    IF hosts[m].pairing # NoPairing THEN Reply(hosts[m], PairFields(<<>>))
    ELSE Reply(Keeps(m, [owner |-> "us", key |-> DeriveAesKey(salt, typed, m \notin OldGen),
                         stage |-> 1, hash |-> Garbage]),
               PairFields(<<Element("plaincert", m)>>))

HostResponse(m, challenge, key) ==
    [hash      |-> GenHash(m \notin OldGen, <<challenge, m, HostSecret(m, key)>>),
     challenge |-> HostChallenge(m, key)]

OnClientChallenge(m, data) ==
    LET s == hosts[m].pairing
    IN  IF ~Ready(m, 1) THEN Refusal(hosts[m])
        ELSE Reply(Keeps(m, [s EXCEPT !.stage = 2]),
                   PairFields(<<Element("challengeresponse",
                       AesEncrypt(HostResponse(m, AesDecrypt(data, s.key), s.key), s.key))>>))

SignedSecret(m, key) ==
    [secret |-> HostSecret(m, key), signature |-> SignMessage(HostSecret(m, key), m)]

OnServerChallengeResp(m, data) ==
    LET s == hosts[m].pairing
    IN  IF ~Ready(m, 2) THEN Refusal(hosts[m])
        ELSE Reply(Keeps(m, [s EXCEPT !.stage = 3, !.hash = AesDecrypt(data, s.key)]),
                   PairFields(<<Element("pairingsecret", SignedSecret(m, s.key))>>))

OnClientPairingSecret(m, secret, signature) ==
    LET s == hosts[m].pairing
        proved == /\ s.hash = GenHash(m \notin OldGen, <<HostChallenge(m, s.key), "us", secret>>)
                  /\ VerifySignature(secret, signature, "us")
    IN  IF ~Ready(m, 3) THEN Refusal(hosts[m])
        ELSE IF proved
        THEN Reply([hosts[m] EXCEPT !.pairing = NoPairing, !.trusts = TRUE], PairFields(<<>>))
        ELSE Reply(Keeps(m, NoPairing), Answer("200", <<Element("paired", "0")>>))

OnPairChallenge(m) == Reply(hosts[m], PairFields(<<>>))

OnUnpair(m) ==
    Reply(IF hosts[m].pairing.owner = "us" THEN Keeps(m, NoPairing) ELSE hosts[m],
          Answer("200", <<>>))

-----------------------------------------------------------------------------
(* NvHttpClient                                                            *)

Answering == IF calm THEN {Home} ELSE Machines

\* Mutated form of TlsOk: the peer's certificate is not compared.
TlsOkAnyPeer(cert, m) == cert # None /\ hosts[m].trusts

\* tlsOk: the peer's certificate is the pinned one; the host for its part
\* accepts only a client it trusts.
TlsOk(cert, m) == cert = m /\ hosts[m].trusts

\* request(): the ways one request to the address may end, for the hosts and
\* for the caller; does[m] is what machine m would do with it.  Once calm, an
\* answer comes whole and in time; what waits for a person is not covered here
\* (GetServerCertTimesOut).
Request(https, cert, does) ==
    LET lost == [hosts |-> hosts, xml |-> <<>>]
        ways(m, did) == {[hosts |-> [hosts EXCEPT ![m] = did.host], xml |-> x] :
                            x \in IF calm THEN {did.xml} ELSE Received(did.xml)}
        from(m) == IF https /\ ~TlsOk(cert, m) THEN {lost}
                   ELSE UNION {ways(m, did) : did \in {does[m]}}
    IN  (IF calm THEN {} ELSE {lost}) \cup UNION {from(m) : m \in Answering}

-----------------------------------------------------------------------------
(* client.pair                                                             *)

GarbageResponse == [hash |-> Garbage, challenge |-> Garbage]

NoAttempt == [salt |-> 0, key |-> NoAesKey, cert |-> None, resp |-> GarbageResponse,
              verdict |-> "none"]

PairInit ==
    /\ hosts = [m \in Machines |-> [trusts |-> FALSE, pairing |-> NoPairing, app |-> 0, key |-> 0]]
    /\ calm = FALSE /\ pin = None
    /\ pc = "idle" /\ att = NoAttempt /\ answer = "none"

\* The handler returns.
Return(result) ==
    /\ pc' = "idle"
    /\ att' = NoAttempt
    /\ answer' = result

Goto(where, attempt) ==
    /\ pc' = where
    /\ att' = attempt
    /\ UNCHANGED answer

\* unpair(transport) and then the result
Cancel(result) == Goto("unpair", [att EXCEPT !.verdict = result])

\* Mutated form of PairedOk: any answer will do.
PairedOkAnyAnswer(xml) == TRUE

\* paired_ok
PairedOk(xml) == StatusOk(xml) /\ XmlText(xml, "paired", "") = "1"

\* A request goes out without the pinned channel.
Plain(does) == Request(FALSE, None, does)

\* client.pair: parameters and identity, before anything is sent.
ClientPair ==
    /\ pc = "idle"
    /\ \/ Return("bad_params")                  \* no host or no pin given
       \/ Return("pairing_failed")              \* the identity is not to be had
       \/ pc' = "pairinfo" /\ att' = NoAttempt /\ answer' = "none"
    /\ UNCHANGED <<hosts, calm, pin>>

UnusedSalts == Salts \ {hosts[m].pairing.key.salt : m \in Machines}

\* serverinfo; the generation decides the digest; then the salt and the key.
PairInfo ==
    /\ pc = "pairinfo"
    /\ \E w \in Plain([m \in Machines |-> OnServerInfo(m)]) :
          IF ~StatusOk(w.xml) THEN Return("host_unreachable")
          ELSE LET salt == CHOOSE n \in UnusedSalts : TRUE
               IN  \/ ~calm /\ Return("pairing_failed")         \* no digest to be had
                   \/ Goto("pair1", [att EXCEPT !.salt = salt,
                         !.key = DeriveAesKey(salt, "right", XmlText(w.xml, "appversion", 0) >= 7)])
    /\ UNCHANGED <<hosts, calm, pin>>

\* The PIN that the owner types into an idle host, in the end.
Typed == IF calm THEN {"right"} ELSE {"right", "wrong"}

\* Mutated form of GetServerCert: a busy host is not asked to forget.
GetServerCertNoUnpair ==
    /\ pc = "pair1"
    /\ \E typed \in Typed :
       \E w \in Plain([m \in Machines |-> OnGetServerCert(m, att.salt, typed)]) :
          /\ hosts' = w.hosts
          /\ LET cert == XmlText(w.xml, "plaincert", None)
             IN  IF ~PairedOk(w.xml) THEN Return("pairing_failed")
                 ELSE IF cert = None THEN Return("already_pairing")
                 ELSE Goto("pair2", [att EXCEPT !.cert = cert])
    /\ UNCHANGED <<calm, pin>>

\* Stage 1: getservercert.  The host answers once its owner typed the PIN; a
\* failure here is the one that is not followed by unpair.
GetServerCert ==
    /\ pc = "pair1"
    /\ \E typed \in Typed :
       \E w \in Plain([m \in Machines |-> OnGetServerCert(m, att.salt, typed)]) :
          /\ hosts' = w.hosts
          /\ LET cert == XmlText(w.xml, "plaincert", None)
             IN  IF ~PairedOk(w.xml) THEN Return("pairing_failed")
                 ELSE IF cert = None THEN Cancel("already_pairing")
                 ELSE Goto("pair2", [att EXCEPT !.cert = cert])
    /\ UNCHANGED <<calm, pin>>

\* The owner takes longer than kTimeoutMs to type the PIN: recv gives up, on the
\* best of networks too, and the session stays behind on the host.
GetServerCertTimesOut ==
    /\ pc = "pair1"
    /\ \E typed \in Typed, m \in Answering :
          /\ hosts[m].pairing = NoPairing
          /\ hosts' = [hosts EXCEPT ![m] = OnGetServerCert(m, att.salt, typed).host]
    /\ Return("pairing_failed")
    /\ UNCHANGED <<calm, pin>>

NoCipher == AesEncrypt(GarbageResponse, NoAesKey)

\* Stage 2: clientchallenge.  An answer under another key is as long as a good
\* one and passes.
ClientChallenge ==
    /\ pc = "pair2"
    /\ \E w \in Plain([m \in Machines |->
                OnClientChallenge(m, AesEncrypt(RandomChallenge(att.salt), att.key))]) :
          /\ hosts' = w.hosts
          /\ LET cipher == XmlText(w.xml, "challengeresponse", NoCipher)
             IN  IF ~PairedOk(w.xml) \/ cipher = NoCipher THEN Cancel("pairing_failed")
                 ELSE Goto("pair3", [att EXCEPT !.resp =
                          IF cipher.key = att.key THEN cipher.text ELSE GarbageResponse])
    /\ UNCHANGED <<calm, pin>>

NoSecret == [secret |-> Garbage, signature |-> Garbage]

\* Mutated form of JudgeSecret: the digest is looked at before the signature.
JudgeSecretDigestFirst(s) ==
    IF att.resp.hash # GenHash(att.key.gen7, <<RandomChallenge(att.salt), att.cert, s.secret>>)
    THEN Cancel("pin_wrong")
    ELSE IF ~VerifySignature(s.secret, s.signature, att.cert) THEN Cancel("pairing_failed")
    ELSE Goto("pair4", att)

\* The host must have signed its secret with the certificate it showed, and
\* its digest must prove that it derived the same key from the PIN.
JudgeSecret(s) ==
    IF ~VerifySignature(s.secret, s.signature, att.cert) THEN Cancel("pairing_failed")
    ELSE IF att.resp.hash # GenHash(att.key.gen7, <<RandomChallenge(att.salt), att.cert, s.secret>>)
    THEN Cancel("pin_wrong")
    ELSE Goto("pair4", att)

\* Stage 3: serverchallengeresp
ServerChallengeResp ==
    /\ pc = "pair3"
    /\ \E w \in Plain([m \in Machines |-> OnServerChallengeResp(m, AesEncrypt(
                GenHash(att.key.gen7, <<att.resp.challenge, "us", ClientSecret(att.salt)>>), att.key))]) :
          /\ hosts' = w.hosts
          /\ LET s == XmlText(w.xml, "pairingsecret", NoSecret)
             IN  IF ~PairedOk(w.xml) \/ s = NoSecret THEN Cancel("pairing_failed")
                 ELSE JudgeSecret(s)
    /\ UNCHANGED <<calm, pin>>

\* Stage 4: clientpairingsecret
ClientPairingSecret ==
    /\ pc = "pair4"
    /\ \E w \in Plain([m \in Machines |-> OnClientPairingSecret(m,
                ClientSecret(att.salt), SignMessage(ClientSecret(att.salt), "us"))]) :
          /\ hosts' = w.hosts
          /\ IF ~PairedOk(w.xml) THEN Cancel("pairing_failed") ELSE Goto("pair5", att)
    /\ UNCHANGED <<calm, pin>>

\* Stage 5: pairchallenge over HTTPS; then upsert_host, whose failure does not
\* count, and the answer.
PairChallenge ==
    /\ pc = "pair5"
    /\ \E w \in Request(TRUE, att.cert, [m \in Machines |-> OnPairChallenge(m)]) :
          /\ hosts' = w.hosts
          /\ \/ ~PairedOk(w.xml) /\ Cancel("pairing_failed") /\ UNCHANGED pin
             \/ PairedOk(w.xml) /\ Return("paired") /\ pin' \in {pin, att.cert}
    /\ UNCHANGED calm

\* unpair: best effort
Unpair ==
    /\ pc = "unpair"
    /\ \E w \in Plain([m \in Machines |-> OnUnpair(m)]) : hosts' = w.hosts
    /\ Return(att.verdict)
    /\ UNCHANGED <<calm, pin>>

PairStep ==
    PairInfo \/ GetServerCert \/ GetServerCertTimesOut \/ ClientChallenge
        \/ ServerChallengeResp \/ ClientPairingSecret \/ PairChallenge \/ Unpair

\* client.trustHost: pins the certificate the account registry has.
TrustHost ==
    /\ pc = "idle"
    /\ \/ Return("bad_params") /\ UNCHANGED pin
       \/ Return("internal") /\ UNCHANGED pin
       \/ Return("trusted") /\ pin' \in Machines
    /\ UNCHANGED <<hosts, calm>>

-----------------------------------------------------------------------------
(* What happens around the engine                                          *)

\* The host's owner removes the client, or trusts it without a pairing.
HostEdits(m) ==
    /\ ~calm
    /\ \E t \in BOOLEAN : hosts' = [hosts EXCEPT ![m].trusts = t]
    /\ UNCHANGED <<calm, pin, pc, att, answer>>

\* The host is restarted and forgets a half-finished pairing.
HostForgets(m) ==
    /\ ~calm /\ hosts[m].pairing # NoPairing
    /\ hosts' = [hosts EXCEPT ![m].pairing = NoPairing]
    /\ UNCHANGED <<calm, pin, pc, att, answer>>

\* Another client starts to pair, and ends.
OtherPairs(m) ==
    /\ ~calm /\ hosts[m].pairing = NoPairing
    /\ hosts' = [hosts EXCEPT ![m].pairing = [NoPairing EXCEPT !.owner = "other"]]
    /\ UNCHANGED <<calm, pin, pc, att, answer>>

OtherEnds(m) ==
    /\ hosts[m].pairing.owner = "other"
    /\ hosts' = [hosts EXCEPT ![m].pairing = NoPairing]
    /\ UNCHANGED <<calm, pin, pc, att, answer>>

Calms ==
    /\ ~calm /\ calm' = TRUE
    /\ UNCHANGED <<hosts, pin, pc, att, answer>>

-----------------------------------------------------------------------------
(* Properties                                                              *)

Answers(result) == pc # "idle" /\ pc' = "idle" /\ answer' = result

\* When client.pair answers "paired", the machine whose certificate it returns
\* trusts this client at that moment, and no other certificate was pinned:
\* what stage 5 of nv_pair is for.  Answers of several machines, cut answers and
\* a client removed between the stages do not get it wrong.
PairedIsMutual ==
    [][Answers("paired") => hosts[att.cert].trusts /\ pin' \in {pin, att.cert}]_pairVars

\* nv_pair blames the PIN only if the owner of the machine whose certificate it
\* got typed another one in this very attempt, or if a cut serverinfo made it
\* take the machine for an older generation.  Left-over sessions of earlier
\* attempts and other machines that answer a later stage are not taken for it.
PinBlamedRightly ==
    [][pc = "pair3" /\ att'.verdict = "pin_wrong" =>
          LET key == hosts[att.cert].pairing.key
          IN  key.salt = att.salt /\ (key.typed # "right" \/ key.gen7 # att.key.gen7)]_pairVars
=============================================================================
