----------------------------- MODULE HostSample -----------------------------
(***************************************************************************)
(* The figures an agent reports: hostCollector.Sample with the readers of  *)
(* /proc (heartbeat_linux.go), the CPU share of a container (docker.go)    *)
(* and the line budget of a log stream (rateOK, log_collector.go).  Pure   *)
(* functions of what the kernel and Docker say; the assumptions at the end *)
(* are evaluated over all inputs of the bounds.                            *)
(*                                                                         *)
(* Counters are unsigned words of W values (2^64 in the code) and wrap.  A *)
(* percentage is the pair of numbers that the code divides.                *)
(***************************************************************************)
LOCAL INSTANCE Integers
LOCAL INSTANCE FiniteSets
LOCAL INSTANCE SequencesExt

CONSTANTS W,           \* number of values of a word
          MaxSamples,  \* bound on the samples in a row
          MaxLinesPerSecond, Second,  \* the budget, and a second in ticks
          MaxTicks     \* bound on the clock of a stream

Word       == 0 .. W - 1
Sum(s)     == FoldLeft(LAMBDA a, b : (a + b) % W, 0, s)
Minus(a, b) == (a - b) % W

-----------------------------------------------------------------------------
(* CPU.                                                                    *)

NoTotals == [total |-> 0, idle |-> 0]

\* The "cpu" line is the sequence of its numbers; the 4th is idle, the 5th iowait.
\* A line that is too short gives no totals and no error.
readCPUTotals(line) ==
  IF Len(line) < 4 THEN NoTotals
  ELSE [total |-> Sum(line), idle |-> Sum(SubSeq(line, 4, IF Len(line) < 5 THEN 4 ELSE 5))]

NoShare == [of |-> 0, all |-> 1]

CpuShare(prev, cur) ==
  LET totalDelta == Minus(cur.total, prev.total)
      idleDelta  == Minus(cur.idle, prev.idle)
  IN IF prev.total > 0 /\ totalDelta > 0
     THEN [of |-> Minus(totalDelta, idleDelta), all |-> totalDelta] ELSE NoShare

\* Sample: an unreadable /proc/stat leaves the totals of the last sample in place.
Unreadable == <<-1>>

SampleCpu(c, line) ==
  IF line = Unreadable THEN [c EXCEPT !.share = NoShare]
  ELSE [prevCPU |-> readCPUTotals(line), share |-> CpuShare(c.prevCPU, readCPUTotals(line))]

Samples(lines) == FoldLeft(SampleCpu, [prevCPU |-> NoTotals, share |-> NoShare], lines)

\* stats.CPUPercent of a container, in floating point: no wrap, no negative share.
ContainerShare(cpu, precpu, sys, presys, cores) ==
  IF sys - presys <= 0 \/ cpu - precpu < 0 THEN NoShare
  ELSE [of |-> (cpu - precpu) * (IF cores = 0 THEN 1 ELSE cores), all |-> sys - presys]

-----------------------------------------------------------------------------
(* Memory, disk and network.                                               *)

\* /proc/meminfo has both lines or the reading does not count; a number that cannot be
\* parsed is 0.
readMemInfo(m) == [ok |-> m.hasTotal /\ m.hasAvail, total |-> m.total, available |-> m.available]

\* MemUsedBytes and MemTotalBytes; sysinfo answers unless it fails.
Memory(m, sys) ==
  LET info  == readMemInfo(m)
      total == IF sys.ok THEN sys.total ELSE 0
      avail == IF info.available > info.total THEN info.total ELSE info.available
  IN CASE info.ok /\ info.total > 0 -> [total |-> info.total, used |-> Minus(info.total, avail)]
       [] ~(info.ok /\ info.total > 0) /\ total > 0 ->
            [total |-> total, used |-> Minus(Minus(sys.total, sys.free), sys.buffer)]
       [] OTHER -> [total |-> 0, used |-> 0]

\* Statfs: blocks and those a user may still take.
Disk(st) == [total |-> st.blocks, used |-> Minus(st.blocks, st.bavail)]

\* A block device is its family and the number of the partition, 0 for the whole disk.
isRealBlockDevice(d) ==
  /\ d.family \notin {"loop", "ram", "sr", "dm-", "fd"}
  /\ ~(d.family = "nvme" /\ d.part # 0)
  /\ ~(d.family \in {"sd", "vd", "xvd", "hd"} /\ d.part # 0)

readDiskBytes(devices) == Sum([i \in DOMAIN devices |->
  IF isRealBlockDevice(devices[i]) THEN devices[i].sectors ELSE 0])

readNetBytes(ifaces) == Sum([i \in DOMAIN ifaces |->
  IF ifaces[i].name \in {"lo", "docker", "veth", "br-"} THEN 0 ELSE ifaces[i].rx])

-----------------------------------------------------------------------------
(* The line budget of a log stream.                                        *)

\* One line at time t: the times of lines accepted within the last second, and whether
\* this one is accepted.
rateOK(s, t) ==
  LET kept == SelectSeq(s.window, LAMBDA u : u > t - Second)
      ok   == Len(kept) < MaxLinesPerSecond
  IN [window |-> IF ok THEN Append(kept, t) ELSE kept, answers |-> Append(s.answers, ok)]

Answers(times) == FoldLeft(rateOK, [window |-> <<>>, answers |-> <<>>], times).answers

-----------------------------------------------------------------------------
(* What is checked.                                                        *)

\* What the kernel may count between two samples: busy, idle and waiting time, less
\* than a word in all.
Advances == {a \in [busy : Word, idle : Word, wait : Word] : a.busy + a.idle + a.wait < W}

CpuLine(a) == <<a.busy, 0, 0, a.idle, a.wait, 0>>
After(a, b) == [busy |-> (a.busy + b.busy) % W, idle |-> (a.idle + b.idle) % W, wait |-> (a.wait + b.wait) % W]
Spent(b)    == b.busy + b.idle + b.wait

\* The CPU share is the busy part of the time since the last sample, never more than
\* all of it, also when one of the counters, or their sum, passes the end of the word
\* in between.  A sum of 0 is taken for no earlier sample.
ASSUME CpuShareIsBusyTime ==
  \A a \in [busy : Word, idle : Word, wait : Word], b \in Advances :
    CpuShare(readCPUTotals(CpuLine(a)), readCPUTotals(CpuLine(After(a, b)))) =
      IF Spent(b) = 0 \/ Sum(CpuLine(a)) = 0 THEN NoShare ELSE [of |-> b.busy, all |-> Spent(b)]

\* A sample that could not be read does not spoil the next: its share is that of the
\* whole time since the last one that could.
ASSUME FailedReadIsBridged ==
  \A steps \in BoundedSeq({"busy", "idle", "failed"}, MaxSamples) :
    LET Busy(n)  == Cardinality({i \in 1 .. n : steps[i] = "busy"})
        Line(n)  == <<1 + Busy(n), 0, 0, n - Busy(n), 0>>
        Good(n)  == {i \in 1 .. n : steps[i] # "failed"}
        n        == Len(steps)
        before   == Good(n - 1)
        from     == Max(before)
    IN n > 0 /\ n + 1 < W =>
         Samples([i \in 1 .. n |-> IF steps[i] = "failed" THEN Unreadable ELSE Line(i)]).share =
           IF steps[n] = "failed" \/ before = {} THEN NoShare
           ELSE [of |-> Busy(n) - Busy(from), all |-> n - from]

\* Used memory and used disk are never more than there is, whichever source answers.
ASSUME UsedIsWithinTotal ==
  /\ \A m \in [hasTotal : BOOLEAN, hasAvail : BOOLEAN, total : Word, available : Word],
        sys \in {s \in [ok : BOOLEAN, total : 0 .. 3, free : 0 .. 3, buffer : 0 .. 3] :
                   s.free + s.buffer <= s.total} :
       Memory(m, sys).used <= Memory(m, sys).total
  /\ \A st \in [blocks : Word, bavail : Word] : st.bavail <= st.blocks => Disk(st).used <= Disk(st).total

\* A disk counts once, not again with its partitions, and not through a device on top of it.
ASSUME DiskCountsOnce ==
  \A family \in {"sd", "vd", "xvd", "hd", "nvme"}, other \in {"loop", "ram", "sr", "dm-", "fd"} :
    \A s1, s2 \in 0 .. 2 :
      readDiskBytes(<<[family |-> family, part |-> 0, sectors |-> s1 + s2],
                      [family |-> family, part |-> 1, sectors |-> s1],
                      [family |-> family, part |-> 2, sectors |-> s2],
                      [family |-> other, part |-> 0, sectors |-> s1]>>) = (s1 + s2) % W

\* Rising sequences of times.
Times == {ts \in BoundedSeq(0 .. MaxTicks, MaxSamples) : \A i \in 1 .. Len(ts) - 1 : ts[i] <= ts[i + 1]}

\* Whenever the lines come, no second holds more accepted lines than the budget, and a
\* line is refused only when the second that ends with it is full.
ASSUME BudgetIsExact ==
  \A ts \in Times :
    LET ok == Answers(ts)
        Accepted(n) == {i \in 1 .. n - 1 : ok[i] /\ ts[i] > ts[n] - Second}
    IN \A n \in DOMAIN ts : ok[n] <=> Cardinality(Accepted(n)) < MaxLinesPerSecond
=============================================================================
