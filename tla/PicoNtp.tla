------------------------------ MODULE PicoNtp ------------------------------
(***************************************************************************)
(* The network time client of the Wi-Fi driver (pico_wifi::ntp_start and   *)
(* its lwIP callbacks, hhg-driver/platform/pico/pico-wifi.cpp:260-385) and *)
(* the clock it sets (pico_time::set_timestamp).                           *)
(*                                                                         *)
(* ntp_start runs in the thread of its caller; ntp_dns_found and ntp_recv  *)
(* run later in the network thread, in any order with everything else.     *)
(* lwIP's resolver and the NTP server are external: the name may be in the *)
(* resolver's cache, be looked up, or not be found; a request or its answer *)
(* may be lost, and an answer may be late, repeated or invalid.            *)
(***************************************************************************)
CONSTANT
    RtcAccepts  \* whether the RTC takes the dates of the current month:
                \* set_timestamp hands it tm_mon, which is 0 in January

VARIABLES
    ntp_state,       \* ntp.state
    server_known,    \* ntp.server_address.addr # 0
    dns_cached,      \* the resolver answers at once
    dns_pending,     \* a lookup whose callback is still to come
    ntp_in_flight,   \* a request or an answer is on the network
    lwip_held,       \* the network thread has kept the lwIP lock for good
    rtc_valid        \* the RTC holds a date later than TIMESTAMP_2020

lookupVars == <<server_known, dns_cached, dns_pending>>
vars == <<ntp_state, lookupVars, ntp_in_flight, lwip_held, rtc_valid>>

TypeOK ==
    /\ ntp_state \in {"NONE", "START", "DNS_FOUND", "REQUEST"}
    /\ {server_known, dns_cached, dns_pending} \subseteq BOOLEAN
    /\ {ntp_in_flight, lwip_held, rtc_valid} \subseteq BOOLEAN

Init ==
    /\ ntp_state = "NONE"
    /\ server_known = FALSE
    /\ dns_cached = FALSE
    /\ dns_pending = FALSE
    /\ ntp_in_flight = FALSE
    /\ lwip_held = FALSE
    /\ rtc_valid = FALSE

-----------------------------------------------------------------------------
(* ntp_start: the resolver's three answers.  It waits for the lwIP lock.    *)

\* The address is known at once: no callback follows, and no request is sent.
NtpStartCached ==
    /\ ~lwip_held
    /\ dns_cached
    /\ server_known' = TRUE
    /\ ntp_state' = "START"
    /\ UNCHANGED <<dns_cached, dns_pending, ntp_in_flight, lwip_held, rtc_valid>>

\* A lookup is under way: ntp_start returns KO and the callback goes on.
NtpStartLookup ==
    /\ ~lwip_held
    /\ ~dns_cached
    /\ dns_pending' = TRUE
    /\ UNCHANGED <<ntp_state, server_known, dns_cached, ntp_in_flight, lwip_held,
                   rtc_valid>>

\* No resolver, or its table is full: KO, and nothing follows.
NtpStartRefused ==
    /\ ~lwip_held
    /\ ~dns_cached
    /\ UNCHANGED vars

NtpStart == NtpStartCached \/ NtpStartLookup

-----------------------------------------------------------------------------
(* The callbacks, in the network thread. *)

DnsFound ==
    /\ dns_pending
    /\ dns_pending' = FALSE
    /\ dns_cached' = TRUE
    /\ server_known' = TRUE
    /\ UNCHANGED rtc_valid

\* ntp_dns_found and, in it, ntp_request: lwip_begin, allocate, send, lwip_end.
NtpDnsFound ==
    /\ DnsFound
    /\ ntp_state' = "REQUEST"
    /\ ntp_in_flight' = TRUE
    /\ UNCHANGED lwip_held

\* ... with ntp_request's early return when no buffer can be allocated, which
\* skips lwip_end: the recursive lock stays with the network thread.
NtpDnsFoundNoBuffer ==
    /\ DnsFound
    /\ ntp_state' = "NONE"
    /\ lwip_held' = TRUE
    /\ UNCHANGED ntp_in_flight

NtpDnsFails ==
    /\ dns_pending
    /\ dns_pending' = FALSE
    /\ ntp_state' = "NONE"
    /\ UNCHANGED <<server_known, dns_cached, ntp_in_flight, lwip_held, rtc_valid>>

\* An answer is accepted: the callback sets the RTC.  More may be on the way.
NtpRecvOk ==
    /\ ntp_in_flight
    /\ ntp_in_flight' \in BOOLEAN
    /\ ntp_state' = "NONE"
    /\ rtc_valid' = (rtc_valid \/ RtcAccepts)
    /\ UNCHANGED <<lookupVars, lwip_held>>

\* An answer fails the checks: the callback gets KO and the state stays.
NtpRecvKo ==
    /\ ntp_in_flight
    /\ ntp_in_flight' \in BOOLEAN
    /\ UNCHANGED <<ntp_state, lookupVars, lwip_held, rtc_valid>>

NtpLost ==
    /\ ntp_in_flight
    /\ ntp_in_flight' = FALSE
    /\ UNCHANGED <<ntp_state, lookupVars, lwip_held, rtc_valid>>

\* The time to live of the cached address runs out.
DnsExpires ==
    /\ dns_cached
    /\ dns_cached' = FALSE
    /\ UNCHANGED <<ntp_state, server_known, dns_pending, ntp_in_flight,
                   lwip_held, rtc_valid>>

\* The operator sets the RTC ($RTC 2), to a date before or after 2020.
SetRtc ==
    /\ rtc_valid' \in BOOLEAN
    /\ UNCHANGED <<ntp_state, lookupVars, ntp_in_flight, lwip_held>>

NetworkAnswers == NtpDnsFound \/ NtpRecvOk \/ DnsExpires
NetworkFails == NtpDnsFails \/ NtpDnsFoundNoBuffer \/ NtpRecvKo \/ NtpLost

Next == NtpStart \/ NtpStartRefused \/ NetworkAnswers \/ NetworkFails \/ SetRtc

Spec == Init /\ [][Next]_vars

-----------------------------------------------------------------------------
(* Properties. *)

(* The lwIP lock is given back by every call that takes it                   *)
(* (pico-wifi.cpp:262-282).                                                  *)
LwipLockReleased == ~lwip_held

=============================================================================
