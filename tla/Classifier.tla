----------------------------- MODULE Classifier -----------------------------
(***************************************************************************)
(* The source of a visit (attribution/classifier.py): the rules in their   *)
(* order, the first that applies decides.  A visit has gclid, gbraid,      *)
(* wbraid, utmSource, utmMedium and a referrer, each of which may be       *)
(* missing.  A referrer is its host, a sequence of labels, in lower case   *)
(* and without "www", empty where the referrer has none; utm values are in *)
(* lower case, too.                                                        *)
(***************************************************************************)
EXTENDS Naturals, Sequences

CONSTANTS
  Null,             \* SQL's NULL: a field the visit does not have
  SocialValues,     \* utm values that contain the name of a social network
  GoogleTagged,     \* utm_source values that begin with google_
  Numerals,         \* labels of digits
  ExtraExclusions,  \* settings.referral_exclusion_hosts, as sequences of labels
  OriginHosts       \* hosts of the sales channels' origins

-----------------------------------------------------------------------------
(* Hosts *)

EndsWith(host, suffix) ==
  /\ Len(suffix) <= Len(host)
  /\ SubSeq(host, Len(host) - Len(suffix) + 1, Len(host)) = suffix

FirstLabel(host) == IF host = <<>> THEN "" ELSE host[1]
Labels(host) == {host[i] : i \in DOMAIN host}

SearchHosts ==
  {<<"bing", "com">>, <<"duckduckgo", "com">>, <<"baidu", "com">>,
   <<"ecosia", "org">>, <<"yahoo", "com">>, <<"yandex", "ru">>, <<"yandex", "com">>}

SocialRoots == {"instagram", "facebook", "tiktok", "pinterest", "linkedin",
                "twitter", "youtube", "whatsapp", "telegram"}

SocialHosts ==
  {<<r, "com">> : r \in SocialRoots \ {"telegram"}} \cup
  {<<"fb", "com">>, <<"x", "com">>, <<"t", "co">>, <<"lnkd", "in">>, <<"pin", "it">>,
   <<"youtu", "be">>, <<"telegram", "org">>, <<"telegram", "me">>, <<"t", "me">>}

\* Subdomains count for two of the engines only; google is one by its first label.
IsSearchReferrer(host) ==
  \/ host \in SearchHosts
  \/ \E h \in {<<"bing", "com">>, <<"yahoo", "com">>} : EndsWith(host, h)
  \/ FirstLabel(host) = "google"

IsSocialReferrer(host) ==
  (\E h \in SocialHosts : EndsWith(host, h)) \/ FirstLabel(host) \in SocialRoots

DefaultExclusions ==
  {<<"paypal", "com">>, <<"paypal", "me">>, <<"paypalobjects", "com">>,
   <<"klarna", "com">>, <<"klarnacdn", "net">>, <<"klarnapayments", "com">>,
   <<"stripe", "com">>, <<"adyen", "com">>, <<"payone", "com">>, <<"payone", "de">>,
   <<"sofort", "com">>, <<"giropay", "de">>, <<"amazonpay", "com">>,
   <<"payments-amazon", "com">>, <<"verifiedbyvisa", "com">>, <<"securecode", "com">>,
   <<"paypal">>, <<"klarna">>, <<"stripe">>, <<"3dsecure">>, <<"3d-secure">>,
   <<"verifiedbyvisa">>, <<"securecode">>, <<"acs">>}

IsIpv4(host) == Len(host) = 4 /\ Labels(host) \subseteq Numerals

\* collect_referral_exclusion_hosts
ReferralExclusionHosts ==
  DefaultExclusions \cup ExtraExclusions \cup
  {h \in OriginHosts : h \notin {<<"test">>, <<"localhost">>} /\ ~IsIpv4(h)}

\* A rule of one label is met by a label, another one by the end of the host.
IsExcludedHost(host, excluded) ==
  \E rule \in excluded :
    IF rule = <<"acs">> THEN FirstLabel(host) = "acs" /\ Len(host) > 2
    ELSE IF Len(rule) > 1 THEN EndsWith(host, rule)
    ELSE rule[1] \in Labels(host)

-----------------------------------------------------------------------------
(* Sources *)

SourceNames ==
  {"google_ads", "seo", "social", "email", "paid", "referral", "direct", "other"}

PaidMediums == {"cpc", "ppc", "paid", "display", "cpm", "cpa", "cpl", "paid-search",
                "paid_search", "shopping"}
EmailMediums == {"email", "e-mail", "newsletter", "mail"}
ReferralMediums == {"referral", "affiliate"}
GoogleSources == {"google", "googleads", "google_ads", "adwords"} \cup GoogleTagged

\* A missing value is none of those that the rules name.
ASSUME ClassifierAssumption ==
  Null \notin {"organic", "seo", "social"} \cup SocialValues \cup PaidMediums
              \cup EmailMediums \cup ReferralMediums \cup GoogleSources

Fields == {"gclid", "gbraid", "wbraid", "utmSource", "utmMedium", "referrer"}

HasClickId(visit) == \E id \in {visit.gclid, visit.gbraid, visit.wbraid} : id # Null
HasUtm(visit) == visit.utmSource # Null \/ visit.utmMedium # Null

\* The referrer, unless it is a host of the shop's own or of a payment provider.
EffectiveReferrer(visit, excluded) ==
  IF visit.referrer = Null \/ IsExcludedHost(visit.referrer, excluded)
  THEN Null ELSE visit.referrer

ClassifySource(visit, excluded) ==
  LET medium == visit.utmMedium
      utm == HasUtm(visit)
      host == EffectiveReferrer(visit, excluded)
      came == host # Null /\ ~utm
  IN IF HasClickId(visit) THEN "google_ads"
     ELSE IF visit.utmSource \in GoogleSources /\ medium \in PaidMediums THEN "google_ads"
     ELSE IF medium \in {"organic", "seo"} \/ (came /\ IsSearchReferrer(host)) THEN "seo"
     ELSE IF \/ medium = "social" \/ {medium, visit.utmSource} \cap SocialValues # {}
             \/ (came /\ IsSocialReferrer(host))
     THEN "social"
     ELSE IF medium \in EmailMediums THEN "email"
     ELSE IF medium \in PaidMediums THEN "paid"
     ELSE IF medium \in ReferralMediums \/ came THEN "referral"
     ELSE IF utm THEN "other" ELSE "direct"

\* What handle_session_started makes of the visit of an anonymized visitor.
Erased(visit) ==
  [f \in DOMAIN visit |-> IF f \in Fields THEN Null ELSE visit[f]]
=============================================================================
