----------------------------- MODULE RateConfig -----------------------------
(***************************************************************************)
(* What the options of `fivem-ebpf run` become when loadXDP                *)
(* (internal/loader/loader.go) sets the constants of the XDP program:      *)
(* rates turn into refill periods, and the global limit, whose buckets are *)
(* per CPU, is divided among the CPUs.  All of it is integer division.     *)
(***************************************************************************)
EXTENDS Integers

(* 0, the program's switch, for a rate of 0; and for one above the unit. *)
PeriodNS(unit, rate) == IF rate = 0 THEN 0 ELSE unit \div rate

PerCPU(v, ncpu) ==
  IF v = 0 \/ ncpu <= 1 THEN v
  ELSE IF v \div ncpu = 0 THEN 1 ELSE v \div ncpu

(* The program's constants, with `second` ticks of its clock to a second.  *)
(* Durations, counts and the switch are set as they are.                   *)
Program(opts, second, ncpu) ==
  [whitelist_ttl_ns      |-> opts.TTL,
   udp_refill_period_ns  |-> PeriodNS(second, opts.UDPRatePerSec),
   udp_burst             |-> opts.UDPBurst,
   initconnect_period_ns |-> PeriodNS(60 * second, opts.InitConnectPerMin),
   initconnect_burst     |-> opts.InitConnectBurst,
   getinfo_period_ns     |-> PeriodNS(60 * second, opts.GetInfoPerMin),
   getinfo_burst         |-> opts.GetInfoBurst,
   tcp_global_period_ns  |->
     PeriodNS(second, PerCPU(opts.TCPGlobalPerSec, ncpu)),
   tcp_global_burst      |-> PerCPU(opts.TCPGlobalBurst, ncpu),
   tcp_max_open_per_ip   |-> opts.TCPMaxOpenPerIP,
   health_window_ns      |-> opts.HealthWindow,
   health_threshold      |-> opts.HealthThreshold,
   health_blacklist_ns   |-> opts.HealthBlacklist,
   drop_history_enabled  |-> opts.DropHistory]
==============================================================================
