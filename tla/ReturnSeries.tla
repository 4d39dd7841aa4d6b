---------------------------- MODULE ReturnSeries ----------------------------
(***************************************************************************)
(* The performance metrics every result is summarised by                    *)
(* (evaluation/metrics.py). The return of one period is kept as the exact    *)
(* growth factor <<after, before>>; means and deviations, which no check of  *)
(* the results recomputes, are left out.                                    *)
(***************************************************************************)
EXTENDS Integers, Sequences

SameRatio(p, q) == p[1] * q[2] = q[1] * p[2]
AtMost(p, q)    == p[1] * q[2] <= q[1] * p[2]

\* The ratio in lowest terms.
Reduced(p) ==
  LET common == {d \in 1..p[2] : p[1] % d = 0 /\ p[2] % d = 0}
      most   == CHOOSE d \in common : \A e \in common : e <= d
  IN  <<p[1] \div most, p[2] \div most>>

Times(p, q)     == Reduced(<<p[1] * q[1], p[2] * q[2]>>)
Larger(p, q)    == IF AtMost(p, q) THEN q ELSE p

\* 1 - wealth / peak.
Fallen(wealth, peak) ==
  Reduced(<<peak[1] * wealth[2] - wealth[1] * peak[2], peak[1] * wealth[2]>>)

\* The loop of compound_return and _max_drawdown after its first k returns.
MetricsLoop(series) ==
  LET step[k \in 0..Len(series)] ==
        IF k = 0 THEN [wealth |-> <<1, 1>>, peak |-> <<1, 1>>, drawdown |-> <<0, 1>>]
        ELSE LET w == Times(step[k - 1].wealth, series[k])
                 p == Larger(step[k - 1].peak, w)
             IN  [wealth |-> w, peak |-> p,
                  drawdown |-> Larger(step[k - 1].drawdown, Fallen(w, p))]
  IN  step[Len(series)]

\* evaluate_performance: total_return (as final wealth), max_drawdown, n_periods and
\* termination_count.
EvaluatePerformance(series, terminations) ==
  [wealth |-> MetricsLoop(series).wealth, drawdown |-> MetricsLoop(series).drawdown,
   periods |-> Len(series), terminations |-> terminations]
=============================================================================
