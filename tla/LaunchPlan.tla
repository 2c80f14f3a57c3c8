----------------------------- MODULE LaunchPlan -----------------------------
(***************************************************************************)
(* What a launch makes of a profile's proxy (launch.rs, launch_profile and   *)
(* resolve_auto_fields): it looks the bound proxy up in the list, probes it  *)
(* for seconds and writes time zone, locale, QUIC and WebRTC policy from     *)
(* what it finds live, in the history or in the proxy's country, while the   *)
(* commands of ProxyStore change both files.                                 *)
(***************************************************************************)
EXTENDS ProxyStore

CONSTANTS
    NoProxy,        \* no proxy is bound
    Inline,         \* the proxy of a temporary profile, which is in no list
    Host,           \* what this computer shows
    Default,        \* UTC and en-US: what an unknown country is mapped to
    Failed,         \* a look-up that fails
    NoZone,         \* exits in countries without a time zone in the table
    NoLocale,       \* exits in countries without a locale in the table
    Answers         \* what a look-up through a proxy may answer

ASSUME LaunchPlanAssumption ==
    /\ NoZone \cup NoLocale \subseteq Exits /\ Answers \subseteq Exits \cup {NoExit, Failed}
    /\ Host \notin Exits \cup {Default} /\ NoProxy \notin Entries

VARIABLES
    binding,    \* what the profile is bound to
    plan        \* the launch

vars == <<store, binding, plan>>

-----------------------------------------------------------------------------
Modes == {"auto", "tcp_only", "block"}

NoPlan == [at |-> "idle", bound |-> NoProxy, kept |-> FALSE, proxy |-> NoProxy, live |-> FALSE,
           udp |-> FALSE, zone |-> Host, locale |-> Host, webrtc |-> "none", ip |-> NoExit]

PlanInit == Init /\ binding = NoProxy /\ plan = NoPlan

Proxied == plan.proxy # NoProxy

(* The look-up of the newest test: an inline proxy has none.                 *)
Latest == IF plan.bound \in DOMAIN history THEN {Last(history[plan.bound])} ELSE {}

MayRead == left.fine \/ \A c \in Commands : ~Working(c)

(* The profile is bound to a proxy of the list, to one of its own or none.    *)
Binds ==
    /\ plan.at = "idle" /\ left.launches > 0
    /\ binding' \in (DOMAIN proxies \cup {NoProxy, Inline}) \ {binding}
    /\ UNCHANGED <<store, plan>>

(* get(..).ok().flatten(): a proxy that is not found is no proxy.             *)
LoadsProxy ==
    /\ plan.at = "idle" /\ left.launches > 0 /\ MayRead
    /\ left' = [left EXCEPT !.launches = @ - 1]
    /\ \E e \in Offered :
           /\ binding \in DOMAIN proxies => e = proxies[binding]
           /\ plan' = [NoPlan EXCEPT
                  !.at = IF binding \in DOMAIN proxies \cup {Inline} /\ e.kind = "socks5" THEN "udp" ELSE "geo",
                  !.bound = binding, !.kept = binding \in kept \cup {Inline},
                  !.proxy = IF binding \in DOMAIN proxies \cup {Inline} THEN e ELSE NoProxy]
    /\ UNCHANGED <<proxies, history, cmd, kept, gone, tested, binding>>

(* probe_udp: TCP, the greeting, the association and a STUN request, any of   *)
(* which may fail; what the last test said counts then.                       *)
ProbesUdp ==
    /\ plan.at = "udp" /\ MayRead
    /\ \E live \in BOOLEAN :
           plan' = [plan EXCEPT !.at = "geo", !.live = live,
                                !.udp = live \/ \E s \in Latest : s.udp]
    /\ UNCHANGED <<store, binding>>

-----------------------------------------------------------------------------
(* resolve_auto_fields                                                       *)

(* geo_check_via: directly, it sees this computer.                            *)
Looks == IF Proxied THEN Answers ELSE {Host, Failed}

(* country_to_timezone                                                       *)
Timezone(exit) == IF exit \in NoZone \cup {NoExit} THEN Default ELSE exit

(* country_to_locale                                                         *)
Locale(exit) == IF exit \in NoLocale \cup {NoExit} THEN Default ELSE exit

Geo(zone, locale) == [zone |-> zone, locale |-> locale]

(* Mutant: the country is not asked.                                           *)
Fallback_Untagged ==
    IF \E s \in Latest : s.ip # NoExit
    THEN LET s == CHOOSE s \in Latest : TRUE IN Geo(s.ip, Locale(s.ip))
    ELSE Geo(Host, Host)

(* A snapshot has its time zone, a country tag only its country.              *)
Fallback ==
    IF \E s \in Latest : s.ip # NoExit
    THEN LET s == CHOOSE s \in Latest : TRUE IN Geo(s.ip, Locale(s.ip))
    ELSE IF Proxied /\ plan.proxy.country # NoExit
    THEN Geo(Timezone(plan.proxy.country), Locale(plan.proxy.country))
    ELSE Geo(Host, Host)

ResolvesAuto ==
    /\ plan.at = "geo" /\ MayRead
    /\ \E answer \in Looks :
           LET geo == IF answer = Failed THEN Fallback
                      ELSE Geo(IF answer = NoExit THEN Timezone(NoExit) ELSE answer, Locale(answer)) IN
           plan' = [plan EXCEPT !.at = "webrtc", !.zone = geo.zone, !.locale = geo.locale]
    /\ UNCHANGED <<store, binding>>

-----------------------------------------------------------------------------
(* The policy for WebRTC, and the address it may show.                        *)

Policy(mode) ==
    IF mode # "auto" THEN mode
    ELSE IF ~Proxied THEN "native"
    ELSE IF plan.udp THEN "relay" ELSE "tcp_only"

PublicIp(answer) ==
    IF ~Proxied THEN NoExit
    ELSE IF answer \notin {NoExit, Failed} THEN answer
    ELSE IF \E s \in Latest : TRUE THEN (CHOOSE s \in Latest : TRUE).ip
    ELSE NoExit

DecidesWebrtc ==
    /\ plan.at = "webrtc" /\ MayRead
    /\ \E answer \in Looks, mode \in Modes :
           plan' = [plan EXCEPT !.at = "started", !.webrtc = Policy(mode),
                                !.ip = IF Policy(mode) = "tcp_only" THEN PublicIp(answer) ELSE NoExit]
    /\ UNCHANGED <<store, binding>>

Closes ==
    /\ plan.at = "started" /\ plan' = NoPlan
    /\ UNCHANGED <<store, binding>>

-----------------------------------------------------------------------------
PlanNext ==
    \/ Commanded /\ UNCHANGED <<binding, plan>>
    \/ Restart /\ plan' = NoPlan /\ UNCHANGED binding
    \/ Binds \/ LoadsProxy \/ ProbesUdp \/ ResolvesAuto \/ DecidesWebrtc \/ Closes

PlanSpec == PlanInit /\ [][PlanNext]_vars

-----------------------------------------------------------------------------
(* Properties.                                                               *)

Started == plan.at = "started"

(* A profile bound to a proxy of the list is started through it, whatever     *)
(* other commands write meanwhile, as long as no thread comes between a read  *)
(* and its write and no write is cut short by the end of the application      *)
(* (launch_profile, save).                                                    *)
KeptIsProxied == Started /\ plan.kept /\ ~left.fine /\ ~left.restarts => Proxied

(* A profile whose proxy has a country never shows this computer's time zone  *)
(* or language, however its look-ups and tests fail, nor a zone that stands   *)
(* for no country unless a look-up that succeeds has no country either        *)
(* ("live -> cached -> country tag", resolve_auto_fields).                    *)
TaggedHidesHost ==
    Started /\ Proxied /\ plan.proxy.country \in Exits \ NoZone
        => /\ plan.zone \in Exits \/ (NoExit \in Answers /\ plan.zone = Default)
           /\ plan.locale # Host

(* The address that WebRTC shows of a proxied profile is an exit's, of the    *)
(* proxy now or at its last test (launch_profile).                            *)
ExitShown == Started => plan.ip \in Exits \cup {NoExit}

(* A launch starts the profile behind its proxy and shows nothing but it      *)
(* (launch_profile, resolve_auto_fields).                                    *)
LaunchSound == KeptIsProxied /\ TaggedHidesHost /\ ExitShown
=============================================================================
