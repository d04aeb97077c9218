---------------------------- MODULE Notifications -----------------------------
(***************************************************************************)
(* The notification channels of a profile (ADR-061/062) and the digests of *)
(* an account's recurring searches: what Profile::add_channel accepts, and *)
(* maybe_send_digest, which tries the search's webhook and then every      *)
(* channel, one after the other, while channels come and go and the server *)
(* restarts with or without SMTP.                                          *)
(***************************************************************************)
CONSTANT Channels   (* channel identifiers, each drawn once                 *)

VARIABLES
  smtp,      (* SMTP is configured                                         *)
  channels,  (* table notification_channels: the rows present              *)
  drawn,     (* identifiers already drawn                                  *)
  digest     (* the digest being sent: [pc, todo, alive, listed, told]     *)

ntVars == <<smtp, channels, drawn, digest>>

Kinds == {"slack", "telegram", "email"}

(* What a target is once trimmed.  "odd" passes the check of its kind, but *)
(* is no URL to reqwest, or no address to lettre.                          *)
Targets == {"empty", "too long", "url", "address", "odd", "text"}
Secrets == {"none", "blank", "too long", "token"}

NoDigest == [pc |-> "none", todo |-> {}, alive |-> {}, listed |-> {}, told |-> {}]

NtTypeOK ==
  /\ smtp \in BOOLEAN
  /\ drawn \subseteq Channels
  /\ \A c \in channels : c.id \in drawn /\ c.kind \in Kinds
  /\ \A c, d \in channels : c.id = d.id => c = d
  /\ digest.pc \in {"none", "find", "webhook", "list", "send", "sent"}
  /\ digest.todo \subseteq digest.listed /\ digest.told \subseteq digest.listed

NtInit ==
  /\ smtp = FALSE
  /\ channels = {}
  /\ drawn = {}
  /\ digest = NoDigest
-----------------------------------------------------------------------------
(* Mutant: the secret is checked as it came, and blanked only when stored. *)
AcceptsUntrimmed(kind, target, secret) ==
  /\ target \notin {"empty", "too long"} /\ secret # "too long"
  /\ CASE kind = "slack" -> target \in {"url", "odd"}
       [] kind = "telegram" -> secret # "none"
       [] kind = "email" -> target \in {"address", "odd"}

(* NotificationChannel::new: the target and the secret are trimmed first,  *)
(* a blank secret is none.                                                 *)
Accepts(kind, target, secret) ==
  /\ target \notin {"empty", "too long"} /\ secret # "too long"
  /\ CASE kind = "slack" -> target \in {"url", "odd"}
       [] kind = "telegram" -> secret \notin {"none", "blank"}
       [] kind = "email" -> target \in {"address", "odd"}

(* Profile::add_channel: e-mail only while SMTP is configured.             *)
AddNtChannel(i, kind, target, secret) ==
  /\ i \notin drawn
  /\ kind = "email" => smtp
  /\ Accepts(kind, target, secret)
  /\ drawn' = drawn \cup {i}
  /\ channels' = channels \cup
       {[id |-> i, kind |-> kind, target |-> target,
         secret |-> IF secret = "token" THEN "token" ELSE "none"]}
  /\ UNCHANGED <<smtp, digest>>

(* Profile::remove_channel, for a channel of the user's.                   *)
RemoveNtChannel(c) ==
  /\ c \in channels
  /\ channels' = channels \ {c}
  /\ UNCHANGED <<smtp, drawn, digest>>

EraseChannels ==
  /\ channels' = {}
  /\ UNCHANGED <<smtp, drawn, digest>>

(* The server restarts, SMTP configured or not; a crash ends the digest.   *)
Restart ==
  /\ smtp' \in BOOLEAN
  /\ digest' = NoDigest
  /\ UNCHANGED <<channels, drawn>>
-----------------------------------------------------------------------------
(* What fails before anything is sent: no token, an address lettre or a    *)
(* URL reqwest refuses, the transport of a server without SMTP.            *)
Addressable(c) ==
  CASE c.kind = "slack" -> c.target = "url"
    [] c.kind = "telegram" -> c.secret = "token"
    [] c.kind = "email" -> c.target = "address"

(* DispatchingChannelNotifier: what is sent through the adapter of its     *)
(* kind arrives at an endpoint that is up.                                 *)
Arrives(c) ==
  Addressable(c) /\ (c.kind = "email" => smtp) /\ c.id \in digest.alive

NewResults ==
  /\ digest.pc \in {"none", "sent"}
  /\ digest' = [NoDigest EXCEPT !.pc = "find"]
  /\ UNCHANGED <<smtp, channels, drawn>>

(* The search is looked up: deleted meanwhile or an error, or found with   *)
(* or without a webhook.                                                   *)
DigestFind ==
  /\ digest.pc = "find"
  /\ \E next \in {"none", "webhook", "list"} :
       digest' = [digest EXCEPT !.pc = next]
  /\ UNCHANGED <<smtp, channels, drawn>>

(* WebhookDigestSender::send: delivered, refused or timed out.             *)
DigestWebhook ==
  /\ digest.pc = "webhook"
  /\ digest' = [digest EXCEPT !.pc = "list"]
  /\ UNCHANGED <<smtp, channels, drawn>>

(* list_for_user, or its error.  The endpoints that are up stay up.        *)
DigestList ==
  /\ digest.pc = "list"
  /\ \/ \E up \in SUBSET Channels :
          digest' = [digest EXCEPT !.pc = "send", !.alive = up,
                                   !.listed = channels, !.todo = channels]
     \/ digest' = NoDigest
  /\ UNCHANGED <<smtp, channels, drawn>>

(* Mutant: the first channel that fails ends the digest.                   *)
DigestNotifyOrStop ==
  /\ digest.pc = "send"
  /\ \E c \in digest.todo :
       digest' = IF Arrives(c)
                 THEN [digest EXCEPT !.todo = @ \ {c}, !.told = @ \cup {c}]
                 ELSE [digest EXCEPT !.pc = "sent"]
  /\ UNCHANGED <<smtp, channels, drawn>>

(* One channel after the other, from the copy listed.                      *)
DigestNotify ==
  /\ digest.pc = "send"
  /\ \E c \in digest.todo :
       digest' = [digest EXCEPT !.todo = @ \ {c},
                                !.told = IF Arrives(c) THEN @ \cup {c} ELSE @]
  /\ UNCHANGED <<smtp, channels, drawn>>

DigestSent ==
  /\ digest.pc = "send" /\ digest.todo = {}
  /\ digest' = [digest EXCEPT !.pc = "sent"]
  /\ UNCHANGED <<smtp, channels, drawn>>
-----------------------------------------------------------------------------
NtNext ==
  \/ \E i \in Channels, k \in Kinds, t \in Targets, s \in Secrets :
       AddNtChannel(i, k, t, s)
  \/ \E c \in channels : RemoveNtChannel(c)
  \/ EraseChannels \/ Restart \/ NewResults
  \/ DigestFind \/ DigestWebhook \/ DigestList \/ DigestNotify \/ DigestSent

NtSpec == NtInit /\ [][NtNext]_ntVars
-----------------------------------------------------------------------------
(* "each destination is tried independently": a digest that was sent       *)
(* reached every listed channel it could reach, whatever failed before it, *)
(* and also those removed meanwhile.                                       *)
LiveChannelsTold ==
  digest.pc = "sent" => \A c \in digest.listed : Arrives(c) => c \in digest.told

(* What the profile accepted can be addressed when a digest comes, but for *)
(* the targets only the client library refuses.                            *)
AcceptedIsAddressable ==
  \A c \in channels \cup digest.listed : Addressable(c) \/ c.target = "odd"
=============================================================================
