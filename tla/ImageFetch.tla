------------------------------ MODULE ImageFetch ------------------------------
(***************************************************************************)
(* _resolve_image_urls() of glc/routes/chat.py with resolve_validated() of *)
(* glc/security/ssrf.py: before a request goes to a provider its images at *)
(* http addresses are fetched, one after the other, each through a few     *)
(* redirects.  Each hop resolves its host and may connect only to what it  *)
(* resolved.  Names' records change at any time, and a server answers what *)
(* it likes.                                                               *)
(***************************************************************************)
EXTENDS Naturals, Sequences, FiniteSets

CONSTANTS
  Hosts,           \* names of hosts
  MaxImages,       \* bound: images of a request
  MaxRedirects,    \* _MAX_REDIRECTS
  MaxDnsChanges    \* bound: changes of records

ASSUME ImageAssumption == MaxImages \in Nat /\ MaxRedirects \in Nat /\ MaxDnsChanges \in Nat

Addresses == {"public", "public too", "blocked", "not an address"}
Public == {"public", "public too"}

VARIABLES
  dns,             \* dns[h]: what h resolves to; {} is an error
  allowlist,       \* GLC_IMAGE_URL_ALLOWLIST; {} allows all
  images,          \* the request: images to go, and the fetch under way
  dns_changes,     \* counts changes
  connections      \* history: of this request, each with host, address, what was resolved,
                   \*   image and hop

image_vars == <<dns, allowlist, images, dns_changes, connections>>

NoImages == [step |-> "none"]

ImagesInit ==
  /\ dns \in [Hosts -> {{"public"}, {"blocked"}}] /\ allowlist \in SUBSET Hosts
  /\ images = NoImages /\ dns_changes = 0 /\ connections = << >>

DnsChanges(h, addresses) ==
  /\ dns_changes < MaxDnsChanges /\ dns_changes' = dns_changes + 1
  /\ addresses # dns[h] /\ dns' = [dns EXCEPT ![h] = addresses]
  /\ UNCHANGED <<allowlist, images, connections>>

(* A URL; url.http: its scheme is http or https.                           *)
Urls == [host : Hosts, http : BOOLEAN]

Hop(left, url, hop) == images' = [step |-> "resolve", left |-> left, url |-> url, hop |-> hop]
Refused400 == images' = [step |-> "refused"]

(* Images that are no http URLs stay as they are; they are not counted.    *)
RequestComes(n, url) ==
  /\ images = NoImages /\ url.http
  /\ Hop(n, url, 0)
  /\ UNCHANGED <<dns, allowlist, dns_changes, connections>>

(* resolve_validated(): an address to connect to, or none.                 *)
Validated(url) ==
  IF ~url.http \/ (allowlist # {} /\ url.host \notin allowlist) \/ "blocked" \in dns[url.host]
  THEN {}
  ELSE dns[url.host] \ {"not an address"}

Resolve ==
  LET url == images.url IN
  /\ images.step = "resolve"
  /\ IF Validated(url) = {} THEN Refused400
     ELSE \E ip \in Validated(url) :
            images' = [step |-> "connect", left |-> images.left, url |-> url, hop |-> images.hop,
                       target |-> ip, resolved |-> dns[url.host]]
  /\ UNCHANGED <<dns, allowlist, dns_changes, connections>>

(* Mutant: the connection is made to the name, which is looked up again.   *)
PinnedByName(f) == dns[f.url.host] \ {"not an address"}

(* The address the connection is made to: that of the check.               *)
Pinned(f) == {f.target}

Connect ==
  /\ images.step = "connect"
  /\ \E ip \in Pinned(images) :
       connections' = Append(connections, [host |-> images.url.host, ip |-> ip,
                                           resolved |-> images.resolved, image |-> images.left,
                                           hop |-> images.hop])
  /\ images' = [images EXCEPT !.step = "answer"]
  /\ UNCHANGED <<dns, allowlist, dns_changes>>

(* A redirect, as long as there are hops left.                             *)
Redirects(url) ==
  /\ images.step = "answer"
  /\ IF images.hop = MaxRedirects THEN Refused400 ELSE Hop(images.left, url, images.hop + 1)
  /\ UNCHANGED <<dns, allowlist, dns_changes, connections>>

(* An error, a lost connection, or a redirect to nowhere.                  *)
FetchFails ==
  /\ images.step = "answer" /\ Refused400
  /\ UNCHANGED <<dns, allowlist, dns_changes, connections>>

(* The image is put in; then the next, or the request goes on.             *)
ImageArrives(url) ==
  /\ images.step = "answer"
  /\ IF images.left > 1 THEN url.http /\ Hop(images.left - 1, url, 0)
     ELSE images' = [step |-> "goes on"]
  /\ UNCHANGED <<dns, allowlist, dns_changes, connections>>

RequestLeaves ==
  /\ images.step \in {"refused", "goes on"}
  /\ images' = NoImages /\ connections' = << >>
  /\ UNCHANGED <<dns, allowlist, dns_changes>>

ImagesNext ==
  \/ \E h \in Hosts, addresses \in SUBSET Addresses : DnsChanges(h, addresses)
  \/ \E n \in 1..MaxImages, url \in Urls : RequestComes(n, url)
  \/ Resolve \/ Connect \/ FetchFails \/ RequestLeaves
  \/ \E url \in Urls : Redirects(url) \/ ImageArrives(url)

ImagesSpec == ImagesInit /\ [][ImagesNext]_image_vars
-------------------------------------------------------------------------------
(* "There is no second DNS lookup at connect time" and the guard is re-run *)
(* for every hop (ssrf.py): whatever the records and the servers do, each  *)
(* connection of a request goes to a public address, one of a resolution   *)
(* that had no blocked address in it, of an allowed host; and no server    *)
(* can make more than one connection for each image and hop, which are     *)
(* bounded.                                                                *)
FetchOnlyValidated ==
  /\ \A i \in DOMAIN connections :
       LET c == connections[i] IN
       /\ c.ip \in c.resolved \intersect Public /\ "blocked" \notin c.resolved
       /\ allowlist = {} \/ c.host \in allowlist
       /\ c.image \in 1..MaxImages /\ c.hop \in 0..MaxRedirects
  /\ \A i, j \in DOMAIN connections : i # j =>
       connections[i].image # connections[j].image \/ connections[i].hop # connections[j].hop
===============================================================================
