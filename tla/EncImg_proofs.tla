----------------------------- MODULE EncImg_proofs ----------------------------
(* What the decoder does for every file, every size of its fields and of    *)
(* the cipher's block, and every way to cut the file into pieces.           *)
EXTENDS EncImg, TLAPS

Fields == {"MAGIC", "GCM", "IV", "BINSIZE", "AUTH"}

\* Handle c has the fields before the one it reads.
Knows(c) ==
    /\ c.state \notin {"MAGIC", "GCM"} => c.gcm_key = Piece(GcmAt, ENC_GCM_KEY_SIZE)
    /\ c.state \in {"BINSIZE", "AUTH", "EXTRA_HEADER", "DECODE"} => c.iv = Piece(IvAt, IV_SIZE)
    /\ c.state \in {"AUTH", "EXTRA_HEADER", "DECODE"} => c.binary_file_len = file.len
    /\ c.state \in {"EXTRA_HEADER", "DECODE"} => c.auth_tag = Piece(AuthAt, AUTH_SIZE)

\* Handle c knows where it is when it has taken in the first pos bytes of the file,
\* and what it has read so far is right.
Progress(c, pos) ==
    /\ pos = Start(c.state) + c.binary_file_read
    /\ c.binary_file_read < Length(c.state)
    /\ c.state \in Fields =>
          /\ c.cache_buf_len = c.binary_file_read
          /\ c.cache_buf_len > 0 => Kept(c) = Piece(Start(c.state), c.cache_buf_len)
    /\ c.state # "DECODE" => c.fed = 0 /\ c.data_out_len = 0
    /\ Knows(c)
    /\ c.state = "DECODE" =>
          /\ c.fed + c.cache_buf_len = c.binary_file_read
          /\ c.cache_buf_len < BLOCK
          /\ c.fed % BLOCK = 0
          /\ c.cache_buf_len > 0 => c.cache_buf = Piece(HeaderSize + c.fed, c.cache_buf_len)

\* A call that has come to c on its n bytes.
Call(c, n) ==
    /\ c \in Handle
    /\ c.sound = TRUE
    /\ c.fed = h.fed
    /\ c.ret \in {"RUN", "NOT_FINISHED", "FAIL"}
    /\ c.ret = "RUN" => c.curr_index <= n /\ c.out = 0 /\ Progress(c, supplied + c.curr_index)
    /\ c.ret = "NOT_FINISHED" => c.data_out_len = 0 /\ Progress(c, supplied + n)
    /\ c.ret = "FAIL" => c.state # "DECODE"

Given(n) == file \in File /\ supplied \in Nat /\ n \in Nat

----------------------------------------------------------------------------
(* The header.                                                              *)

\* The fields follow each other.
LEMMA Layout ==
    /\ {MAGIC_SIZE, ENC_GCM_KEY_SIZE, IV_SIZE, BIN_SIZE_DATA, AUTH_SIZE,
        RESERVED_HEADER, BLOCK} \subseteq Nat \ {0}
    /\ \A state \in Fields : Length(state) \in 1 .. ENC_GCM_KEY_SIZE
    /\ \A state \in State : Start(state) \in Nat
    /\ GcmAt = MAGIC_SIZE /\ GcmAt \in Nat
    /\ IvAt = GcmAt + ENC_GCM_KEY_SIZE /\ IvAt \in Nat
    /\ BinSizeAt = IvAt + IV_SIZE /\ BinSizeAt \in Nat
    /\ AuthAt = BinSizeAt + BIN_SIZE_DATA /\ AuthAt \in Nat
    /\ ExtraAt = AuthAt + AUTH_SIZE /\ ExtraAt \in Nat
    /\ HeaderSize = ExtraAt + RESERVED_HEADER /\ HeaderSize \in Nat
  <1>1. {MAGIC_SIZE, ENC_GCM_KEY_SIZE, IV_SIZE, BIN_SIZE_DATA, AUTH_SIZE,
         RESERVED_HEADER, BLOCK} \subseteq Nat \ {0}
    BY EncAssumption
  <1>2. /\ GcmAt = MAGIC_SIZE /\ GcmAt \in Nat
        /\ IvAt = GcmAt + ENC_GCM_KEY_SIZE /\ IvAt \in Nat
        /\ BinSizeAt = IvAt + IV_SIZE /\ BinSizeAt \in Nat
        /\ AuthAt = BinSizeAt + BIN_SIZE_DATA /\ AuthAt \in Nat
        /\ ExtraAt = AuthAt + AUTH_SIZE /\ ExtraAt \in Nat
        /\ HeaderSize = ExtraAt + RESERVED_HEADER /\ HeaderSize \in Nat
    BY <1>1 DEF GcmAt, IvAt, BinSizeAt, AuthAt, ExtraAt, HeaderSize
  <1>3. \A state \in Fields : Length(state) \in 1 .. ENC_GCM_KEY_SIZE
    BY EncAssumption DEF Fields, Length
  <1>4. \A state \in State : Start(state) \in Nat
    BY <1>2 DEF State, Start
  <1> QED
    BY <1>1, <1>2, <1>3, <1>4

\* read_and_cache_data takes what there is of a field, behind what it has of it.
LEMMA Cached ==
    ASSUME NEW c, NEW n, Given(n), Call(c, n), c.ret = "RUN", c.state \in Fields
    PROVE  LET size == Length(c.state)
               d == read_and_cache_data(c, n, size)
           IN  /\ d \in Handle
               /\ d.state = c.state /\ d.ret = c.ret /\ d.sound = c.sound /\ d.fed = c.fed
               /\ d.out = c.out /\ d.data_out_len = c.data_out_len
               /\ d.gcm_key = c.gcm_key /\ d.binary_file_len = c.binary_file_len
               /\ c.state # "IV" => d.iv = c.iv
               /\ c.state # "AUTH" => d.auth_tag = c.auth_tag
               /\ d.curr_index <= n
               /\ d.binary_file_read = d.cache_buf_len /\ d.binary_file_read <= size
               /\ supplied + d.curr_index = Start(c.state) + d.binary_file_read
               /\ d.binary_file_read < size => d.curr_index = n
               /\ d.cache_buf_len > 0 => Kept(d) = Piece(Start(c.state), d.cache_buf_len)
  <1> DEFINE size == Length(c.state)
             k == Lesser(n - c.curr_index, size - c.binary_file_read)
             p == Piece(supplied + c.curr_index, k)
             s == Start(c.state)
             old == Kept(c)
             new == Copied(old, c.cache_buf_len, p)
             d == read_and_cache_data(c, n, size)
  <1>t. /\ c \in Handle /\ c.curr_index \in Nat /\ c.binary_file_read \in Nat
        /\ c.curr_index <= n /\ n \in Nat /\ supplied \in Nat
        /\ c.cache_buf_len = c.binary_file_read
        /\ c.binary_file_read < size
        /\ supplied + c.curr_index = s + c.binary_file_read
        /\ c.cache_buf_len > 0 => old = Piece(s, c.cache_buf_len)
    BY DEF Call, Progress, Handle, Given
  <1>s. size \in 1 .. ENC_GCM_KEY_SIZE /\ s \in Nat /\ ENC_GCM_KEY_SIZE \in Nat
    BY Layout DEF Fields, State
  <1>k. /\ k \in Nat /\ c.curr_index + k <= n /\ c.binary_file_read + k <= size
        /\ c.binary_file_read + k < size => c.curr_index + k = n
    BY <1>t, <1>s DEF Lesser
  <1> HIDE DEF k, s, size
  <1>n. new \in AnyPiece /\ (c.cache_buf_len + k > 0 => new = Piece(s, c.cache_buf_len + k))
    <2>1. CASE c.cache_buf_len = 0
      BY <2>1, <1>t, <1>s, <1>k DEF Copied, Piece, AnyPiece
    <2>2. CASE c.cache_buf_len > 0
      BY <2>2, <1>t, <1>s, <1>k DEF Copied, Piece, AnyPiece
    <2>3. c.cache_buf_len \in Nat
      BY <1>t
    <2> QED
      BY <2>1, <2>2, <2>3
  <1> DEFINE b == [c EXCEPT !.cache_buf_len = c.cache_buf_len + k,
                            !.curr_index = c.curr_index + k,
                            !.binary_file_read = c.binary_file_read + k]
  <1>b. /\ b \in Handle
        /\ b.cache_buf_len = c.cache_buf_len + k
        /\ b.curr_index = c.curr_index + k
        /\ b.binary_file_read = c.binary_file_read + k
        /\ b.state = c.state /\ b.ret = c.ret /\ b.sound = c.sound /\ b.fed = c.fed
        /\ b.out = c.out /\ b.data_out_len = c.data_out_len
        /\ b.gcm_key = c.gcm_key /\ b.binary_file_len = c.binary_file_len
        /\ b.iv = c.iv /\ b.auth_tag = c.auth_tag
    <2>1. /\ c.cache_buf_len + k \in 0 .. ENC_GCM_KEY_SIZE
          /\ c.curr_index + k \in Nat /\ c.binary_file_read + k \in Nat
      BY <1>t, <1>s, <1>k
    <2> QED
      BY <2>1, <1>t DEF Handle
  <1>c. /\ c.curr_index + k <= n
        /\ c.binary_file_read + k = c.cache_buf_len + k /\ c.binary_file_read + k <= size
        /\ supplied + (c.curr_index + k) = s + (c.binary_file_read + k)
        /\ c.binary_file_read + k < size => c.curr_index + k = n
    BY <1>t, <1>s, <1>k
  <1> DEFINE Right == /\ d \in Handle
                      /\ d.cache_buf_len = b.cache_buf_len
                      /\ d.curr_index = b.curr_index
                      /\ d.binary_file_read = b.binary_file_read
                      /\ d.state = b.state /\ d.ret = b.ret /\ d.sound = b.sound /\ d.fed = b.fed
                      /\ d.out = b.out /\ d.data_out_len = b.data_out_len
                      /\ d.gcm_key = b.gcm_key /\ d.binary_file_len = b.binary_file_len
                      /\ c.state # "IV" => d.iv = b.iv
                      /\ c.state # "AUTH" => d.auth_tag = b.auth_tag
                      /\ Kept(d) = new
  <1>1. ASSUME c.state = "IV" PROVE Right
    <2>1. d = [b EXCEPT !.iv = new]
      BY <1>1, <1>t DEF read_and_cache_data, k, Kept, size, Handle
    <2> HIDE DEF new, b, d
    <2> QED
      BY <1>1, <2>1, <1>n, <1>b DEF Handle, Kept
  <1>2. ASSUME c.state = "AUTH" PROVE Right
    <2>1. d = [b EXCEPT !.auth_tag = new]
      BY <1>2, <1>t DEF read_and_cache_data, k, Kept, size, Handle
    <2> HIDE DEF new, b, d
    <2> QED
      BY <1>2, <2>1, <1>n, <1>b DEF Handle, Kept
  <1>3. ASSUME c.state \notin {"IV", "AUTH"} PROVE Right
    <2>1. d = [b EXCEPT !.cache_buf = new]
      BY <1>3, <1>t DEF read_and_cache_data, k, Kept, size, Handle
    <2> HIDE DEF new, b, d
    <2> QED
      BY <1>3, <2>1, <1>n, <1>b DEF Handle, Kept
  <1>4. Right
    BY <1>1, <1>2, <1>3
  <1> HIDE DEF new, b, d
  <1> QED
    BY <1>4, <1>b, <1>c, <1>n, <1>t DEF d, size, s

\* Return changes nothing but the result.
LEMMA Returned ==
    ASSUME NEW c \in Handle, NEW r \in Error
    PROVE  /\ Return(c, r) \in Handle
           /\ Return(c, r).ret = r
           /\ Return(c, r).state = c.state
           /\ Return(c, r).sound = c.sound
           /\ Return(c, r).fed = c.fed
           /\ Return(c, r).data_out_len = c.data_out_len
           /\ \A pos : Progress(c, pos) => Progress(Return(c, r), pos)
  <1> DEFINE d == Return(c, r)
  <1>1. /\ d \in Handle /\ d.ret = r
        /\ d.state = c.state /\ d.sound = c.sound /\ d.fed = c.fed
        /\ d.data_out_len = c.data_out_len /\ d.binary_file_read = c.binary_file_read
        /\ d.cache_buf_len = c.cache_buf_len /\ d.cache_buf = c.cache_buf
        /\ d.gcm_key = c.gcm_key /\ d.iv = c.iv /\ d.auth_tag = c.auth_tag
        /\ d.binary_file_len = c.binary_file_len
    BY DEF Return, Handle
  <1> HIDE DEF d
  <1>2. Kept(d) = Kept(c)
    BY <1>1 DEF Kept
  <1>3. ASSUME NEW pos, Progress(c, pos) PROVE Progress(d, pos)
    BY <1>1, <1>2, <1>3 DEF Progress, Knows
  <1> QED
    BY <1>1, <1>3 DEF d

\* A call that ends within a field has taken in all its bytes.
LEMMA Short ==
    ASSUME NEW c, NEW n, Given(n), Call(c, n), c.ret = "RUN", c.state \in Fields,
           read_and_cache_data(c, n, Length(c.state)).binary_file_read # Length(c.state)
    PROVE  Call(Return(read_and_cache_data(c, n, Length(c.state)), "NOT_FINISHED"), n)
  <1> DEFINE size == Length(c.state)
             d == read_and_cache_data(c, n, size)
             e == Return(d, "NOT_FINISHED")
  <1>1. /\ d \in Handle
        /\ d.state = c.state /\ d.ret = c.ret /\ d.sound = c.sound /\ d.fed = c.fed
        /\ d.out = c.out /\ d.data_out_len = c.data_out_len
        /\ d.gcm_key = c.gcm_key /\ d.binary_file_len = c.binary_file_len
        /\ c.state # "IV" => d.iv = c.iv
        /\ c.state # "AUTH" => d.auth_tag = c.auth_tag
        /\ d.curr_index <= n
        /\ d.binary_file_read = d.cache_buf_len /\ d.binary_file_read <= size
        /\ supplied + d.curr_index = Start(c.state) + d.binary_file_read
        /\ d.binary_file_read < size => d.curr_index = n
        /\ d.cache_buf_len > 0 => Kept(d) = Piece(Start(c.state), d.cache_buf_len)
    BY Cached
  <1>2. Progress(c, supplied + c.curr_index) /\ c.data_out_len = 0 /\ c.fed = 0
    BY DEF Call, Progress, Fields
  <1>3. d.binary_file_read < size
    <2>1. d.binary_file_read \in Nat /\ size \in Nat
      BY <1>1, Layout DEF Handle, Fields
    <2> HIDE DEF d, size
    <2> QED
      BY <1>1, <2>1 DEF d, size
  <1>4. Progress(d, supplied + n)
    <2> HIDE DEF d
    <2> QED
      BY <1>1, <1>2, <1>3 DEF Progress, Knows, Fields
  <1> HIDE DEF d
  <1>5. /\ e \in Handle /\ e.ret = "NOT_FINISHED" /\ e.state = d.state
        /\ e.sound = d.sound /\ e.fed = d.fed /\ e.data_out_len = d.data_out_len
        /\ Progress(e, supplied + n)
    BY <1>1, <1>4, Returned DEF Error
  <1> HIDE DEF e
  <1>6. Call(e, n)
    BY <1>1, <1>2, <1>5 DEF Call
  <1> QED
    BY <1>6 DEF e, d, size

\* Behind a field nothing of the next one is read.
LEMMA AdvancedTo ==
    ASSUME NEW c \in Handle, NEW state \in State
    PROVE  LET d == Advanced(c, state)
           IN  /\ d \in Handle
               /\ d.state = state /\ d.binary_file_read = 0 /\ d.cache_buf_len = 0
               /\ d.ret = c.ret /\ d.sound = c.sound /\ d.fed = c.fed
               /\ d.out = c.out /\ d.data_out_len = c.data_out_len
               /\ d.gcm_key = c.gcm_key /\ d.binary_file_len = c.binary_file_len
               /\ d.iv = c.iv /\ d.auth_tag = c.auth_tag
               /\ d.curr_index = c.curr_index
  <1>1. 0 \in Nat /\ 0 \in 0 .. ENC_GCM_KEY_SIZE
    BY EncAssumption
  <1> QED
    BY <1>1 DEF Advanced, Handle

\* A field that is there as a whole is not copied to the cache.
LEMMA SkippedOver ==
    ASSUME NEW c \in Handle, NEW size \in Nat
    PROVE  LET d == Skipped(c, size)
           IN  /\ d \in Handle
               /\ d.state = c.state /\ d.curr_index = c.curr_index + size
               /\ d.binary_file_read = c.binary_file_read /\ d.cache_buf_len = c.cache_buf_len
               /\ d.ret = c.ret /\ d.sound = c.sound /\ d.fed = c.fed
               /\ d.out = c.out /\ d.data_out_len = c.data_out_len
               /\ d.gcm_key = c.gcm_key /\ d.binary_file_len = c.binary_file_len
               /\ d.iv = c.iv /\ d.auth_tag = c.auth_tag
  <1>1. c.curr_index + size \in Nat
    BY DEF Handle
  <1> QED
    BY <1>1 DEF Skipped, Handle

\* What a call in the header starts a stage with.
LEMMA InHeader ==
    ASSUME NEW c, NEW n, Given(n), Call(c, n), c.ret = "RUN", c.state # "DECODE"
    PROVE  /\ c \in Handle /\ c.sound = TRUE /\ c.out = 0 /\ c.data_out_len = 0
           /\ c.fed = 0 /\ h.fed = 0
           /\ c.curr_index \in Nat /\ c.curr_index <= n
           /\ supplied + c.curr_index = Start(c.state) + c.binary_file_read
           /\ c.binary_file_read < Length(c.state)
           /\ Knows(c)
  BY DEF Call, Progress, Handle

\* A field that is there as a whole starts where the call is.
LEMMA WholeThere ==
    ASSUME NEW c, NEW n, Given(n), Call(c, n), c.ret = "RUN", c.state \in Fields,
           WholeField(c, n, Length(c.state))
    PROVE  /\ c.cache_buf_len = 0 /\ c.binary_file_read = 0
           /\ c.curr_index + Length(c.state) <= n
           /\ supplied + c.curr_index = Start(c.state)
  <1>1. /\ c.cache_buf_len = 0 /\ c.binary_file_read = 0
        /\ n - c.curr_index >= Length(c.state) /\ n \in Nat /\ c.curr_index \in Nat
        /\ supplied + c.curr_index = Start(c.state) + c.binary_file_read
    BY DEF WholeField, Call, Progress, Handle, Given
  <1>2. Length(c.state) \in Nat /\ Start(c.state) \in Nat
    BY Layout DEF Fields, State
  <1> QED
    BY <1>1, <1>2

\* A stage that has its field leaves the next one to a call that goes on.
LEMMA Enter ==
    ASSUME NEW d \in Handle, NEW n, Given(n), d.ret = "RUN", d.state # "MAGIC",
           d.binary_file_read = 0, d.cache_buf_len = 0, d.fed = 0, h.fed = 0,
           d.data_out_len = 0, d.sound = TRUE, d.out = 0, d.curr_index <= n,
           supplied + d.curr_index = Start(d.state), Knows(d)
    PROVE  Call(d, n)
  <1>1. d.state \in State /\ Start(d.state) \in Nat
    BY Layout DEF Handle
  <1>2. Length(d.state) > 0
    BY <1>1, Layout DEF Length, State, Fields, File, Given
  <1>3. 0 % BLOCK = 0 /\ BLOCK > 0
    BY Layout
  <1>4. Progress(d, supplied + d.curr_index)
    BY <1>1, <1>2, <1>3 DEF Progress, Fields
  <1> QED
    BY <1>4 DEF Call

\* A call that fails in the header.
LEMMA Fails ==
    ASSUME NEW c \in Handle, NEW n, c.sound = TRUE, c.fed = h.fed, c.state # "DECODE"
    PROVE  Call(Return(c, "FAIL"), n) /\ Return(c, "FAIL").ret = "FAIL"
  <1> DEFINE d == Return(c, "FAIL")
  <1>1. d \in Handle /\ d.ret = "FAIL" /\ d.state = c.state /\ d.sound = c.sound /\ d.fed = c.fed
    BY Returned DEF Error
  <1> HIDE DEF d
  <1>2. Call(d, n)
    BY <1>1 DEF Call
  <1> QED
    BY <1>1, <1>2 DEF d

\* Each stage leaves a call that is right, and one that goes on is past it.
LEMMA MagicStep ==
    ASSUME NEW c, NEW n, Given(n), Call(c, n)
    PROVE  /\ Call(Magic(c, n), n)
           /\ Magic(c, n).ret = "RUN" => Magic(c, n).state # "MAGIC"
  <1>1. CASE ~Runs(c, "MAGIC")
    BY <1>1 DEF Magic, Runs
  <1>2. CASE Runs(c, "MAGIC")
    <2> DEFINE d == read_and_cache_data(c, n, MAGIC_SIZE)
    <2>1. c.ret = "RUN" /\ c.state = "MAGIC" /\ Length(c.state) = MAGIC_SIZE /\ c.state \in Fields
      BY <1>2 DEF Runs, Fields, Length
    <2>2. /\ c \in Handle /\ c.sound = TRUE /\ c.out = 0 /\ c.data_out_len = 0
          /\ c.fed = 0 /\ h.fed = 0
      BY <2>1, InHeader
    <2>3. CASE WholeField(c, n, MAGIC_SIZE)
      <3> DEFINE b == Skipped(c, MAGIC_SIZE)
                 e == [b EXCEPT !.state = "GCM"]
      <3>1. /\ b \in Handle /\ b.binary_file_read = 0 /\ b.cache_buf_len = 0
            /\ b.ret = "RUN" /\ b.sound = TRUE /\ b.fed = 0 /\ h.fed = 0
            /\ b.out = 0 /\ b.data_out_len = 0
            /\ b.curr_index = c.curr_index + MAGIC_SIZE
        <4>1. c.cache_buf_len = 0 /\ c.binary_file_read = 0
          BY <2>1, <2>3, WholeThere
        <4>2. MAGIC_SIZE \in Nat
          BY Layout
        <4> QED
          BY <2>1, <2>2, <4>1, <4>2, SkippedOver
      <3> HIDE DEF b
      <3>2. /\ e \in Handle /\ e.binary_file_read = 0 /\ e.cache_buf_len = 0
            /\ e.ret = "RUN" /\ e.sound = TRUE /\ e.fed = 0
            /\ e.out = 0 /\ e.data_out_len = 0
            /\ e.curr_index = b.curr_index /\ e.state = "GCM"
        BY <3>1 DEF Handle, State
      <3>3. e.curr_index <= n /\ supplied + e.curr_index = Start("GCM")
        <4>1. c.curr_index + MAGIC_SIZE <= n /\ supplied + c.curr_index = 0 /\ c.curr_index \in Nat
          BY <2>1, <2>3, WholeThere, InHeader DEF Start
        <4> QED
          BY <4>1, <3>1, <3>2, Layout DEF Start, Given
      <3> HIDE DEF e
      <3>4. Call(e, n)
        BY <3>1, <3>2, <3>3, Enter DEF Knows
      <3> QED
        BY <2>1, <2>2, <2>3, <3>2, <3>4, Fails DEF Magic, Runs, e, b
    <2>4. CASE ~WholeField(c, n, MAGIC_SIZE) /\ d.binary_file_read # MAGIC_SIZE
      BY <2>1, <2>4, Short, Cached, Returned DEF Magic, Error, Runs
    <2>5. CASE ~WholeField(c, n, MAGIC_SIZE) /\ d.binary_file_read = MAGIC_SIZE
      <3> DEFINE e == Advanced(d, "GCM")
      <3>1. /\ d \in Handle /\ d.curr_index <= n /\ d.ret = "RUN" /\ d.state = "MAGIC"
            /\ d.fed = 0 /\ h.fed = 0 /\ d.data_out_len = 0 /\ d.sound = TRUE /\ d.out = 0
            /\ supplied + d.curr_index = Start(c.state) + MAGIC_SIZE
        BY <2>1, <2>2, <2>5, Cached
      <3> HIDE DEF d
      <3>2. /\ e \in Handle /\ e.ret = "RUN" /\ e.state = "GCM"
            /\ e.cache_buf_len = 0 /\ e.binary_file_read = 0 /\ e.curr_index = d.curr_index
            /\ e.fed = 0 /\ e.data_out_len = 0 /\ e.sound = TRUE /\ e.out = 0
        BY <3>1, AdvancedTo DEF State
      <3>3. supplied + e.curr_index = Start("GCM")
        BY <2>1, <3>1, <3>2, Layout DEF Start
      <3> HIDE DEF e
      <3>4. Call(e, n)
        BY <3>1, <3>2, <3>3, Enter DEF Knows
      <3> QED
        BY <2>1, <2>5, <3>1, <3>2, <3>4, Fails DEF Magic, Runs, d, e
    <2> QED
      BY <2>3, <2>4, <2>5
  <1> QED
    BY <1>1, <1>2

LEMMA GcmStep ==
    ASSUME NEW c, NEW n, NEW mem \in BOOLEAN, Given(n), Call(c, n),
           c.ret = "RUN" => c.state # "MAGIC"
    PROVE  /\ Call(Gcm(c, n, mem), n)
           /\ Gcm(c, n, mem).ret = "RUN" => Gcm(c, n, mem).state \notin {"MAGIC", "GCM"}
  <1>1. CASE ~Runs(c, "GCM")
    BY <1>1 DEF Gcm, Runs
  <1>2. CASE Runs(c, "GCM")
    <2> DEFINE size == ENC_GCM_KEY_SIZE
               d == read_and_cache_data(c, n, size)
    <2>1. c.ret = "RUN" /\ c.state = "GCM" /\ Length(c.state) = size /\ c.state \in Fields
      BY <1>2 DEF Runs, Fields, Length
    <2>2. size \in Nat /\ Start("GCM") = GcmAt /\ Start("IV") = GcmAt + size
      BY Layout DEF Start
    <2>h. /\ c \in Handle /\ c.sound = TRUE /\ c.out = 0 /\ c.data_out_len = 0
          /\ c.fed = 0 /\ h.fed = 0
      BY <2>1, InHeader
    <2>3. CASE WholeField(c, n, size)
      <3> DEFINE key == Piece(supplied + c.curr_index, size)
                 good == [Advanced(c, "IV") EXCEPT !.gcm_key = key]
                 e == Skipped(good, size)
                 bad == Skipped(Return(c, "FAIL"), size)
      <3>1. /\ c.curr_index + size <= n /\ supplied + c.curr_index = GcmAt
            /\ c \in Handle /\ c.sound = TRUE /\ c.out = 0 /\ c.data_out_len = 0
            /\ c.fed = 0 /\ h.fed = 0
            /\ c.curr_index \in Nat
        BY <2>1, <2>2, <2>3, WholeThere, InHeader
      <3>2. key = Piece(GcmAt, size) /\ key \in AnyPiece
        BY <3>1, <2>2, Layout DEF Piece, AnyPiece
      <3> HIDE DEF key
      <3>3. /\ good \in Handle /\ good.gcm_key = key
            /\ good.state = "IV" /\ good.binary_file_read = 0 /\ good.cache_buf_len = 0
            /\ good.ret = "RUN" /\ good.sound = TRUE /\ good.fed = 0
            /\ good.out = 0 /\ good.data_out_len = 0 /\ good.curr_index = c.curr_index
        <4> DEFINE a == Advanced(c, "IV")
        <4>1. /\ a \in Handle
              /\ a.state = "IV" /\ a.binary_file_read = 0 /\ a.cache_buf_len = 0
              /\ a.ret = "RUN" /\ a.sound = TRUE /\ a.fed = 0
              /\ a.out = 0 /\ a.data_out_len = 0 /\ a.curr_index = c.curr_index
          BY <2>1, <3>1, AdvancedTo DEF State
        <4> HIDE DEF a
        <4>2. good = [a EXCEPT !.gcm_key = key]
          BY DEF a
        <4> QED
          BY <4>1, <4>2, <3>2 DEF Handle
      <3> HIDE DEF good
      <3>4. /\ e \in Handle /\ e.gcm_key = key
            /\ e.state = "IV" /\ e.binary_file_read = 0 /\ e.cache_buf_len = 0
            /\ e.ret = "RUN" /\ e.sound = TRUE /\ e.fed = 0
            /\ e.out = 0 /\ e.data_out_len = 0 /\ e.curr_index = c.curr_index + size
        BY <3>3, <2>2, SkippedOver
      <3>5. e.curr_index <= n /\ supplied + e.curr_index = Start("IV")
        BY <3>1, <3>4, <2>2, Layout DEF Given
      <3> HIDE DEF e
      <3>6. Call(e, n)
        BY <3>1, <3>2, <3>4, <3>5, Enter DEF Knows
      <3>7. Call(bad, n) /\ bad.ret = "FAIL"
        <4> DEFINE r == Return(c, "FAIL")
        <4>1. r \in Handle /\ r.ret = "FAIL" /\ r.state = "GCM" /\ r.sound = TRUE /\ r.fed = 0
          BY <2>1, <3>1, Returned DEF Error
        <4> HIDE DEF r
        <4>2. /\ bad \in Handle /\ bad.ret = "FAIL" /\ bad.state = "GCM"
              /\ bad.sound = TRUE /\ bad.fed = 0
          BY <4>1, <2>2, SkippedOver DEF r
        <4> HIDE DEF bad
        <4> QED
          BY <4>2, <3>1 DEF Call
      <3>8. Gcm(c, n, mem) \in {e, bad}
        BY <1>2, <2>3 DEF Gcm, decipher_gcm_key, e, good, key
      <3> HIDE DEF bad
      <3> QED
        BY <3>4, <3>6, <3>7, <3>8
    <2>4. CASE ~WholeField(c, n, size) /\ d.cache_buf_len # size
      <3>1. d.binary_file_read = d.cache_buf_len
        BY <2>1, Cached
      <3> QED
        BY <2>1, <2>4, <3>1, Short, Cached, Returned DEF Gcm, Error, Runs
    <2>5. CASE ~WholeField(c, n, size) /\ d.cache_buf_len = size
      <3> DEFINE a == Advanced(d, "IV")
                 e == [a EXCEPT !.gcm_key = d.cache_buf]
      <3>1. /\ d \in Handle /\ d.curr_index <= n /\ d.ret = "RUN" /\ d.state = "GCM"
            /\ d.fed = 0 /\ h.fed = 0 /\ d.data_out_len = 0 /\ d.sound = TRUE /\ d.out = 0
            /\ supplied + d.curr_index = Start("IV")
            /\ Kept(d) = Piece(GcmAt, size)
        BY <2>1, <2>2, <2>h, <2>5, Cached, Layout
      <3>2. d.cache_buf = Piece(GcmAt, size) /\ d.cache_buf \in AnyPiece
        <4> HIDE DEF d
        <4> QED
          BY <3>1 DEF Kept, Handle
      <3> HIDE DEF d
      <3>3. /\ a \in Handle
            /\ a.state = "IV" /\ a.binary_file_read = 0 /\ a.cache_buf_len = 0
            /\ a.ret = "RUN" /\ a.sound = TRUE /\ a.fed = 0
            /\ a.out = 0 /\ a.data_out_len = 0 /\ a.curr_index = d.curr_index
        BY <3>1, AdvancedTo DEF State
      <3> HIDE DEF a
      <3>4. /\ e \in Handle /\ e.gcm_key = Piece(GcmAt, size)
            /\ e.state = "IV" /\ e.binary_file_read = 0 /\ e.cache_buf_len = 0
            /\ e.ret = "RUN" /\ e.sound = TRUE /\ e.fed = 0
            /\ e.out = 0 /\ e.data_out_len = 0 /\ e.curr_index = d.curr_index
        BY <3>2, <3>3 DEF Handle
      <3> HIDE DEF e
      <3>5. Call(e, n)
        BY <3>1, <3>4, Enter DEF Knows
      <3>6. Gcm(c, n, mem) \in {e, Return(d, "FAIL")}
        BY <1>2, <2>5 DEF Gcm, decipher_gcm_key, e, a, d
      <3> QED
        BY <3>1, <3>4, <3>5, <3>6, Fails
    <2> QED
      BY <2>3, <2>4, <2>5
  <1> QED
    BY <1>1, <1>2

LEMMA IvStep ==
    ASSUME NEW c, NEW n, Given(n), Call(c, n), c.ret = "RUN" => c.state \notin {"MAGIC", "GCM"}
    PROVE  /\ Call(Iv(c, n), n)
           /\ Iv(c, n).ret = "RUN" => Iv(c, n).state \notin {"MAGIC", "GCM", "IV"}
  <1>1. CASE ~Runs(c, "IV")
    BY <1>1 DEF Iv, Runs
  <1>2. CASE Runs(c, "IV")
    <2> DEFINE p == Piece(supplied + c.curr_index, IV_SIZE)
               b == [Skipped(c, IV_SIZE) EXCEPT !.iv = p, !.binary_file_read = IV_SIZE]
               d == IF WholeField(c, n, IV_SIZE) THEN b ELSE read_and_cache_data(c, n, IV_SIZE)
               e == Advanced(d, "BINSIZE")
    <2>1. c.ret = "RUN" /\ c.state = "IV" /\ Length(c.state) = IV_SIZE /\ c.state \in Fields
      BY <1>2 DEF Runs, Fields, Length
    <2>2. /\ c \in Handle /\ c.sound = TRUE /\ c.out = 0 /\ c.data_out_len = 0
          /\ c.fed = 0 /\ h.fed = 0 /\ Knows(c) /\ c.curr_index \in Nat
      BY <2>1, InHeader
    <2>3. /\ IV_SIZE \in Nat /\ Start("IV") = IvAt /\ IvAt \in Nat
          /\ Start("BINSIZE") = BinSizeAt /\ BinSizeAt = IvAt + IV_SIZE
      BY Layout DEF Start
    <2>4. Iv(c, n) = IF d.binary_file_read = IV_SIZE THEN e ELSE Return(d, "NOT_FINISHED")
      BY <1>2 DEF Iv
    <2> DEFINE Ready == /\ d \in Handle /\ d.ret = "RUN"
                        /\ d.fed = 0 /\ d.data_out_len = 0 /\ d.sound = TRUE /\ d.out = 0
                        /\ d.curr_index <= n /\ supplied + d.curr_index = BinSizeAt
                        /\ d.iv = Piece(IvAt, IV_SIZE)
                        /\ d.gcm_key = c.gcm_key
    <2>5. ASSUME WholeField(c, n, IV_SIZE) PROVE d.binary_file_read = IV_SIZE /\ Ready
      <3> DEFINE a == Skipped(c, IV_SIZE)
      <3>1. c.curr_index + IV_SIZE <= n /\ supplied + c.curr_index = IvAt
        BY <2>1, <2>3, <2>5, WholeThere
      <3>2. /\ a \in Handle /\ a.ret = "RUN" /\ a.curr_index = c.curr_index + IV_SIZE
            /\ a.fed = 0 /\ a.data_out_len = 0 /\ a.sound = TRUE /\ a.out = 0
            /\ a.gcm_key = c.gcm_key
        BY <2>1, <2>2, <2>3, SkippedOver
      <3> HIDE DEF a
      <3>3. p = Piece(IvAt, IV_SIZE) /\ p \in AnyPiece
        BY <3>1, <2>3 DEF Piece, AnyPiece
      <3> HIDE DEF p
      <3>4. d = [a EXCEPT !.iv = p, !.binary_file_read = IV_SIZE]
        BY <2>5 DEF a
      <3>5. /\ d \in Handle /\ d.ret = "RUN" /\ d.curr_index = a.curr_index
            /\ d.fed = 0 /\ d.data_out_len = 0 /\ d.sound = TRUE /\ d.out = 0
            /\ d.iv = p /\ d.binary_file_read = IV_SIZE
            /\ d.gcm_key = a.gcm_key
        <4> HIDE DEF d
        <4> QED
          BY <3>2, <3>3, <3>4, <2>3 DEF Handle
      <3>6. d.curr_index <= n /\ supplied + d.curr_index = BinSizeAt
        BY <3>1, <3>2, <3>5, <2>2, <2>3 DEF Given
      <3> HIDE DEF d
      <3> QED
        BY <3>2, <3>3, <3>5, <3>6
    <2>6. ASSUME ~WholeField(c, n, IV_SIZE), d.binary_file_read = IV_SIZE PROVE Ready
      <3>1. d = read_and_cache_data(c, n, IV_SIZE)
        BY <2>6
      <3>2. /\ d \in Handle /\ d.ret = "RUN" /\ d.state = "IV"
            /\ d.fed = 0 /\ d.data_out_len = 0 /\ d.sound = TRUE /\ d.out = 0
            /\ d.curr_index <= n /\ supplied + d.curr_index = IvAt + IV_SIZE
            /\ Kept(d) = Piece(IvAt, IV_SIZE)
            /\ d.gcm_key = c.gcm_key
        BY <2>1, <2>2, <2>3, <2>6, <3>1, Cached, Layout
      <3> HIDE DEF d
      <3> QED
        BY <2>3, <3>2 DEF Kept
    <2>7. CASE ~WholeField(c, n, IV_SIZE) /\ d.binary_file_read # IV_SIZE
      BY <2>1, <2>4, <2>7, Short, Cached, Returned DEF Error
    <2>8. CASE d.binary_file_read = IV_SIZE
      <3>1. Ready
        BY <2>5, <2>6, <2>8
      <3> HIDE DEF d
      <3>2. /\ e \in Handle /\ e.ret = "RUN" /\ e.state = "BINSIZE"
            /\ e.cache_buf_len = 0 /\ e.binary_file_read = 0 /\ e.curr_index = d.curr_index
            /\ e.fed = 0 /\ e.data_out_len = 0 /\ e.sound = TRUE /\ e.out = 0
            /\ e.iv = d.iv
            /\ e.gcm_key = d.gcm_key
        BY <3>1, AdvancedTo DEF State
      <3> HIDE DEF e
      <3>3. Knows(e)
        BY <2>1, <2>2, <3>1, <3>2 DEF Knows
      <3>4. Call(e, n)
        BY <2>2, <2>3, <3>1, <3>2, <3>3, Enter
      <3> QED
        BY <2>4, <2>8, <3>2, <3>4
    <2> QED
      BY <2>5, <2>7, <2>8
  <1> QED
    BY <1>1, <1>2

LEMMA BinSizeStep ==
    ASSUME NEW c, NEW n, Given(n), Call(c, n), c.ret = "RUN" => c.state \notin {"MAGIC", "GCM", "IV"}
    PROVE  /\ Call(BinSizeStage(c, n), n)
           /\ BinSizeStage(c, n).ret = "RUN" =>
                 BinSizeStage(c, n).state \notin {"MAGIC", "GCM", "IV", "BINSIZE"}
  <1>1. CASE ~Runs(c, "BINSIZE")
    BY <1>1 DEF BinSizeStage, Runs
  <1>2. CASE Runs(c, "BINSIZE")
    <2> DEFINE there == WholeField(c, n, BIN_SIZE_DATA)
               r == read_and_cache_data(c, n, BIN_SIZE_DATA)
               d == IF there THEN Skipped(c, BIN_SIZE_DATA) ELSE r
               f == IF there THEN Piece(supplied + c.curr_index, BIN_SIZE_DATA) ELSE r.cache_buf
               a == Advanced(d, "AUTH")
               e == [a EXCEPT !.binary_file_len = BinSize(f)]
    <2>1. /\ c.ret = "RUN" /\ c.state = "BINSIZE" /\ Length(c.state) = BIN_SIZE_DATA
          /\ c.state \in Fields
      BY <1>2 DEF Runs, Fields, Length
    <2>2. /\ c \in Handle /\ c.sound = TRUE /\ c.out = 0 /\ c.data_out_len = 0
          /\ c.fed = 0 /\ h.fed = 0 /\ Knows(c) /\ c.curr_index \in Nat
      BY <2>1, InHeader
    <2>3. /\ BIN_SIZE_DATA \in Nat /\ Start("BINSIZE") = BinSizeAt /\ BinSizeAt \in Nat
          /\ Start("AUTH") = AuthAt /\ AuthAt = BinSizeAt + BIN_SIZE_DATA
      BY Layout DEF Start
    <2>4. BinSizeStage(c, n) = IF there \/ r.binary_file_read = BIN_SIZE_DATA THEN e
                               ELSE Return(r, "NOT_FINISHED")
      BY <1>2 DEF BinSizeStage
    <2> DEFINE Ready == /\ d \in Handle /\ d.ret = "RUN"
                        /\ d.fed = 0 /\ d.data_out_len = 0 /\ d.sound = TRUE /\ d.out = 0
                        /\ d.curr_index <= n /\ supplied + d.curr_index = AuthAt
                        /\ d.gcm_key = c.gcm_key /\ d.iv = c.iv
                        /\ f = Piece(BinSizeAt, BIN_SIZE_DATA)
    <2>5. ASSUME there PROVE Ready
      <3>1. c.curr_index + BIN_SIZE_DATA <= n /\ supplied + c.curr_index = BinSizeAt
        BY <2>1, <2>3, <2>5, WholeThere
      <3>2. /\ d \in Handle /\ d.ret = "RUN" /\ d.curr_index = c.curr_index + BIN_SIZE_DATA
            /\ d.fed = 0 /\ d.data_out_len = 0 /\ d.sound = TRUE /\ d.out = 0
            /\ d.gcm_key = c.gcm_key /\ d.iv = c.iv
        BY <2>1, <2>2, <2>3, <2>5, SkippedOver
      <3>3. f = Piece(BinSizeAt, BIN_SIZE_DATA)
        BY <2>5, <3>1
      <3> HIDE DEF d
      <3> QED
        BY <2>2, <2>3, <3>1, <3>2, <3>3 DEF Given
    <2>6. ASSUME ~there, r.binary_file_read = BIN_SIZE_DATA PROVE Ready
      <3>1. d = r /\ f = r.cache_buf
        BY <2>6
      <3>2. /\ r \in Handle /\ r.ret = "RUN" /\ r.state = "BINSIZE"
            /\ r.fed = 0 /\ r.data_out_len = 0 /\ r.sound = TRUE /\ r.out = 0
            /\ r.curr_index <= n /\ supplied + r.curr_index = BinSizeAt + BIN_SIZE_DATA
            /\ Kept(r) = Piece(BinSizeAt, BIN_SIZE_DATA)
            /\ r.gcm_key = c.gcm_key /\ r.iv = c.iv
        BY <2>1, <2>2, <2>3, <2>6, Cached, Layout
      <3> HIDE DEF d, f, r
      <3> QED
        BY <2>3, <3>1, <3>2 DEF Kept
    <2>7. CASE ~there /\ r.binary_file_read # BIN_SIZE_DATA
      BY <2>1, <2>4, <2>7, Short, Cached, Returned DEF Error
    <2>8. CASE there \/ r.binary_file_read = BIN_SIZE_DATA
      <3>1. Ready
        BY <2>5, <2>6, <2>8
      <3>2. BinSize(f) = file.len /\ file.len \in Nat
        BY <3>1, EncAssumption DEF BinSize, Given, File
      <3> HIDE DEF d, f
      <3>3. /\ a \in Handle /\ a.ret = "RUN" /\ a.state = "AUTH"
            /\ a.cache_buf_len = 0 /\ a.binary_file_read = 0 /\ a.curr_index = d.curr_index
            /\ a.fed = 0 /\ a.data_out_len = 0 /\ a.sound = TRUE /\ a.out = 0
            /\ a.gcm_key = d.gcm_key /\ a.iv = d.iv
        BY <3>1, AdvancedTo DEF State
      <3> HIDE DEF a
      <3>4. /\ e \in Handle /\ e.ret = "RUN" /\ e.state = "AUTH"
            /\ e.cache_buf_len = 0 /\ e.binary_file_read = 0 /\ e.curr_index = a.curr_index
            /\ e.fed = 0 /\ e.data_out_len = 0 /\ e.sound = TRUE /\ e.out = 0
            /\ e.gcm_key = a.gcm_key /\ e.iv = a.iv /\ e.binary_file_len = file.len
        BY <3>2, <3>3 DEF Handle
      <3> HIDE DEF e
      <3>5. Knows(e)
        BY <2>1, <2>2, <3>1, <3>3, <3>4 DEF Knows
      <3>6. Call(e, n)
        BY <2>2, <2>3, <3>1, <3>3, <3>4, <3>5, Enter
      <3> QED
        BY <2>4, <2>8, <3>4, <3>6
    <2> QED
      BY <2>7, <2>8
  <1> QED
    BY <1>1, <1>2

LEMMA AuthStep ==
    ASSUME NEW c, NEW n, Given(n), Call(c, n), c.ret = "RUN" => c.state \notin {"MAGIC", "GCM", "IV", "BINSIZE"}
    PROVE  /\ Call(Auth(c, n), n)
           /\ Auth(c, n).ret = "RUN" => Auth(c, n).state \notin {"MAGIC", "GCM", "IV", "BINSIZE", "AUTH"}
  <1>1. CASE ~Runs(c, "AUTH")
    BY <1>1 DEF Auth, Runs
  <1>2. CASE Runs(c, "AUTH")
    <2> DEFINE p == Piece(supplied + c.curr_index, AUTH_SIZE)
               b == [Skipped(c, AUTH_SIZE) EXCEPT !.auth_tag = p, !.binary_file_read = AUTH_SIZE]
               d == IF WholeField(c, n, AUTH_SIZE) THEN b ELSE read_and_cache_data(c, n, AUTH_SIZE)
               e == Advanced(d, "EXTRA_HEADER")
    <2>1. c.ret = "RUN" /\ c.state = "AUTH" /\ Length(c.state) = AUTH_SIZE /\ c.state \in Fields
      BY <1>2 DEF Runs, Fields, Length
    <2>2. /\ c \in Handle /\ c.sound = TRUE /\ c.out = 0 /\ c.data_out_len = 0
          /\ c.fed = 0 /\ h.fed = 0 /\ Knows(c) /\ c.curr_index \in Nat
      BY <2>1, InHeader
    <2>3. /\ AUTH_SIZE \in Nat /\ Start("AUTH") = AuthAt /\ AuthAt \in Nat
          /\ Start("EXTRA_HEADER") = ExtraAt /\ ExtraAt = AuthAt + AUTH_SIZE
      BY Layout DEF Start
    <2>4. Auth(c, n) = IF d.binary_file_read = AUTH_SIZE THEN e ELSE Return(d, "NOT_FINISHED")
      BY <1>2 DEF Auth
    <2> DEFINE Ready == /\ d \in Handle /\ d.ret = "RUN"
                        /\ d.fed = 0 /\ d.data_out_len = 0 /\ d.sound = TRUE /\ d.out = 0
                        /\ d.curr_index <= n /\ supplied + d.curr_index = ExtraAt
                        /\ d.auth_tag = Piece(AuthAt, AUTH_SIZE)
                        /\ d.gcm_key = c.gcm_key /\ d.iv = c.iv /\ d.binary_file_len = c.binary_file_len
    <2>5. ASSUME WholeField(c, n, AUTH_SIZE) PROVE d.binary_file_read = AUTH_SIZE /\ Ready
      <3> DEFINE a == Skipped(c, AUTH_SIZE)
      <3>1. c.curr_index + AUTH_SIZE <= n /\ supplied + c.curr_index = AuthAt
        BY <2>1, <2>3, <2>5, WholeThere
      <3>2. /\ a \in Handle /\ a.ret = "RUN" /\ a.curr_index = c.curr_index + AUTH_SIZE
            /\ a.fed = 0 /\ a.data_out_len = 0 /\ a.sound = TRUE /\ a.out = 0
            /\ a.gcm_key = c.gcm_key /\ a.iv = c.iv /\ a.binary_file_len = c.binary_file_len
        BY <2>1, <2>2, <2>3, SkippedOver
      <3> HIDE DEF a
      <3>3. p = Piece(AuthAt, AUTH_SIZE) /\ p \in AnyPiece
        BY <3>1, <2>3 DEF Piece, AnyPiece
      <3> HIDE DEF p
      <3>4. d = [a EXCEPT !.auth_tag = p, !.binary_file_read = AUTH_SIZE]
        BY <2>5 DEF a
      <3>5. /\ d \in Handle /\ d.ret = "RUN" /\ d.curr_index = a.curr_index
            /\ d.fed = 0 /\ d.data_out_len = 0 /\ d.sound = TRUE /\ d.out = 0
            /\ d.auth_tag = p /\ d.binary_file_read = AUTH_SIZE
            /\ d.gcm_key = a.gcm_key /\ d.iv = a.iv /\ d.binary_file_len = a.binary_file_len
        <4> HIDE DEF d
        <4> QED
          BY <3>2, <3>3, <3>4, <2>3 DEF Handle
      <3>6. d.curr_index <= n /\ supplied + d.curr_index = ExtraAt
        BY <3>1, <3>2, <3>5, <2>2, <2>3 DEF Given
      <3> HIDE DEF d
      <3> QED
        BY <3>2, <3>3, <3>5, <3>6
    <2>6. ASSUME ~WholeField(c, n, AUTH_SIZE), d.binary_file_read = AUTH_SIZE PROVE Ready
      <3>1. d = read_and_cache_data(c, n, AUTH_SIZE)
        BY <2>6
      <3>2. /\ d \in Handle /\ d.ret = "RUN" /\ d.state = "AUTH"
            /\ d.fed = 0 /\ d.data_out_len = 0 /\ d.sound = TRUE /\ d.out = 0
            /\ d.curr_index <= n /\ supplied + d.curr_index = AuthAt + AUTH_SIZE
            /\ Kept(d) = Piece(AuthAt, AUTH_SIZE)
            /\ d.gcm_key = c.gcm_key /\ d.iv = c.iv /\ d.binary_file_len = c.binary_file_len
        BY <2>1, <2>2, <2>3, <2>6, <3>1, Cached, Layout
      <3> HIDE DEF d
      <3> QED
        BY <2>3, <3>2 DEF Kept
    <2>7. CASE ~WholeField(c, n, AUTH_SIZE) /\ d.binary_file_read # AUTH_SIZE
      BY <2>1, <2>4, <2>7, Short, Cached, Returned DEF Error
    <2>8. CASE d.binary_file_read = AUTH_SIZE
      <3>1. Ready
        BY <2>5, <2>6, <2>8
      <3> HIDE DEF d
      <3>2. /\ e \in Handle /\ e.ret = "RUN" /\ e.state = "EXTRA_HEADER"
            /\ e.cache_buf_len = 0 /\ e.binary_file_read = 0 /\ e.curr_index = d.curr_index
            /\ e.fed = 0 /\ e.data_out_len = 0 /\ e.sound = TRUE /\ e.out = 0
            /\ e.auth_tag = d.auth_tag
            /\ e.gcm_key = d.gcm_key /\ e.iv = d.iv /\ e.binary_file_len = d.binary_file_len
        BY <3>1, AdvancedTo DEF State
      <3> HIDE DEF e
      <3>3. Knows(e)
        BY <2>1, <2>2, <3>1, <3>2 DEF Knows
      <3>4. Call(e, n)
        BY <2>2, <2>3, <3>1, <3>2, <3>3, Enter
      <3> QED
        BY <2>4, <2>8, <3>2, <3>4
    <2> QED
      BY <2>5, <2>7, <2>8
  <1> QED
    BY <1>1, <1>2

\* The reserved bytes are skipped without a copy.
LEMMA ExtraStep ==
    ASSUME NEW c, NEW n, Given(n), Call(c, n),
           c.ret = "RUN" => c.state \notin {"MAGIC", "GCM", "IV", "BINSIZE", "AUTH"}
    PROVE  /\ Call(Extra(c, n), n)
           /\ Extra(c, n).ret = "RUN" => Extra(c, n).state = "DECODE"
  <1>1. CASE ~Runs(c, "EXTRA_HEADER")
    BY <1>1 DEF Extra, Runs, Call, Handle, State
  <1>2. CASE Runs(c, "EXTRA_HEADER")
    <2> DEFINE k == Lesser(n - c.curr_index, RESERVED_HEADER - c.binary_file_read)
               d == [c EXCEPT !.curr_index = @ + k, !.binary_file_read = @ + k]
               e == Advanced(d, "DECODE")
    <2>1. c.ret = "RUN" /\ c.state = "EXTRA_HEADER" /\ Length(c.state) = RESERVED_HEADER
      BY <1>2 DEF Runs, Length
    <2>2. /\ c \in Handle /\ c.sound = TRUE /\ c.out = 0 /\ c.data_out_len = 0
          /\ c.fed = 0 /\ h.fed = 0 /\ Knows(c)
          /\ c.curr_index \in Nat /\ c.curr_index <= n
          /\ supplied + c.curr_index = ExtraAt + c.binary_file_read
          /\ c.binary_file_read < RESERVED_HEADER
      BY <2>1, InHeader DEF Start
    <2>3. /\ RESERVED_HEADER \in Nat /\ ExtraAt \in Nat /\ HeaderSize = ExtraAt + RESERVED_HEADER
          /\ c.binary_file_read \in Nat /\ n \in Nat /\ supplied \in Nat
      BY <2>2, Layout DEF Handle, Given
    <2>4. /\ k \in Nat /\ c.curr_index + k <= n /\ c.binary_file_read + k <= RESERVED_HEADER
          /\ c.binary_file_read + k < RESERVED_HEADER => c.curr_index + k = n
      BY <2>2, <2>3 DEF Lesser
    <2> HIDE DEF k
    <2>5. /\ d \in Handle /\ d.ret = "RUN" /\ d.state = "EXTRA_HEADER"
          /\ d.fed = 0 /\ d.data_out_len = 0 /\ d.sound = TRUE /\ d.out = 0
          /\ d.curr_index = c.curr_index + k /\ d.binary_file_read = c.binary_file_read + k
          /\ d.gcm_key = c.gcm_key /\ d.iv = c.iv /\ d.binary_file_len = c.binary_file_len
          /\ d.auth_tag = c.auth_tag
      <3>1. c.curr_index + k \in Nat /\ c.binary_file_read + k \in Nat
        BY <2>2, <2>3, <2>4
      <3> QED
        BY <2>1, <2>2, <3>1 DEF Handle
    <2>6. Extra(c, n) = IF d.binary_file_read = RESERVED_HEADER THEN e
                        ELSE Return(d, "NOT_FINISHED")
      BY <1>2 DEF Extra, k
    <2> HIDE DEF d
    <2>7. Knows(d)
      BY <2>1, <2>2, <2>5 DEF Knows
    <2>8. CASE d.binary_file_read # RESERVED_HEADER
      <3>1. /\ d.binary_file_read < RESERVED_HEADER
            /\ supplied + n = ExtraAt + d.binary_file_read
        BY <2>2, <2>3, <2>4, <2>5, <2>8
      <3>2. Progress(d, supplied + n)
        BY <3>1, <2>5, <2>7 DEF Progress, Start, Length, Fields
      <3> DEFINE r == Return(d, "NOT_FINISHED")
      <3>3. /\ r \in Handle /\ r.ret = "NOT_FINISHED" /\ r.sound = TRUE /\ r.fed = 0
            /\ r.data_out_len = 0 /\ Progress(r, supplied + n)
        BY <2>5, <3>2, Returned DEF Error
      <3> HIDE DEF r
      <3>4. Call(r, n)
        BY <2>2, <3>3 DEF Call
      <3> QED
        BY <2>6, <2>8, <3>3, <3>4 DEF r
    <2>9. CASE d.binary_file_read = RESERVED_HEADER
      <3>1. /\ e \in Handle /\ e.ret = "RUN" /\ e.state = "DECODE"
            /\ e.cache_buf_len = 0 /\ e.binary_file_read = 0 /\ e.curr_index = d.curr_index
            /\ e.fed = 0 /\ e.data_out_len = 0 /\ e.sound = TRUE /\ e.out = 0
            /\ e.gcm_key = d.gcm_key /\ e.iv = d.iv /\ e.binary_file_len = d.binary_file_len
            /\ e.auth_tag = d.auth_tag
        BY <2>5, AdvancedTo DEF State
      <3> HIDE DEF e
      <3>2. Knows(e)
        BY <2>5, <2>7, <3>1 DEF Knows
      <3>3. e.curr_index <= n /\ supplied + e.curr_index = Start(e.state)
        BY <2>2, <2>3, <2>4, <2>5, <2>9, <3>1 DEF Start
      <3>4. Call(e, n)
        BY <2>2, <3>1, <3>2, <3>3, Enter
      <3> QED
        BY <2>6, <2>9, <3>1, <3>4
    <2> QED
      BY <2>8, <2>9
  <1> QED
    BY <1>1, <1>2

----------------------------------------------------------------------------
(* The body.                                                                *)

\* Whole blocks: what is left over is less than one, and rounding down keeps the
\* order.
LEMMA Division ==
    ASSUME NEW a \in Nat
    PROVE  /\ a % BLOCK \in 0 .. BLOCK - 1 /\ a % BLOCK <= a
           /\ \E q \in Nat : a = BLOCK * q + (a % BLOCK)
  <1>0. BLOCK \in Nat \ {0}
    BY Layout
  <1>1. a = BLOCK * (a \div BLOCK) + (a % BLOCK) /\ a \div BLOCK \in Nat
    BY <1>0
  <1>2. a % BLOCK \in 0 .. BLOCK - 1 /\ a % BLOCK <= a
    BY <1>0
  <1> QED
    BY <1>1, <1>2

LEMMA Multiple ==
    ASSUME NEW a \in Nat, a % BLOCK = 0
    PROVE  \E q \in Nat : a = BLOCK * q
  <1>1. PICK q \in Nat : a = BLOCK * q + (a % BLOCK)
    BY Division
  <1>2. BLOCK * q \in Nat
    BY Layout
  <1>3. BLOCK * q + (a % BLOCK) = BLOCK * q
    <2> DEFINE m == BLOCK * q
    <2>1. m \in Nat
      BY <1>2
    <2> HIDE DEF m
    <2> QED
      BY <2>1 DEF m
  <1> QED
    BY <1>1, <1>3

LEMMA Remainder ==
    ASSUME NEW a \in Nat, NEW q \in Nat, NEW r \in 0 .. BLOCK - 1, a = BLOCK * q + r
    PROVE  a % BLOCK = r
  <1>0. BLOCK \in Nat \ {0}
    BY Layout
  <1>1. PICK k \in Nat : a = BLOCK * k + (a % BLOCK)
    BY Division
  <1>2. a % BLOCK \in 0 .. BLOCK - 1
    BY Division
  <1> DEFINE s == a % BLOCK
  <1>3. s \in 0 .. BLOCK - 1 /\ a = BLOCK * k + s
    BY <1>1, <1>2
  <1> HIDE DEF s
  <1>4. ASSUME q >= k + 1 PROVE FALSE
    <2>1. BLOCK * q >= BLOCK * (k + 1) /\ BLOCK * (k + 1) = BLOCK * k + BLOCK
      BY <1>0, <1>4
    <2>2. BLOCK * q \in Nat /\ BLOCK * k \in Nat
      BY <1>0
    <2> QED
      BY <1>0, <1>3, <2>1, <2>2
  <1>5. ASSUME k >= q + 1 PROVE FALSE
    <2>1. BLOCK * k >= BLOCK * (q + 1) /\ BLOCK * (q + 1) = BLOCK * q + BLOCK
      BY <1>0, <1>5
    <2>2. BLOCK * q \in Nat /\ BLOCK * k \in Nat
      BY <1>0
    <2> QED
      BY <1>0, <1>3, <2>1, <2>2
  <1>6. q = k
    BY <1>4, <1>5
  <1>7. BLOCK * q \in Nat
    BY <1>0
  <1> QED
    BY <1>3, <1>6, <1>7 DEF s

LEMMA Multiples ==
    ASSUME NEW a \in Nat, NEW b \in Nat, a % BLOCK = 0, b % BLOCK = 0
    PROVE  (a + b) % BLOCK = 0
  <1>0. BLOCK \in Nat \ {0}
    BY Layout
  <1>1. PICK q \in Nat : a = BLOCK * q
    BY Multiple
  <1>2. PICK r \in Nat : b = BLOCK * r
    BY Multiple
  <1>3. a + b = BLOCK * (q + r) + 0 /\ q + r \in Nat /\ a + b \in Nat /\ 0 \in 0 .. BLOCK - 1
    BY <1>0, <1>1, <1>2
  <1> QED
    BY <1>3, Remainder

LEMMA Whole ==
    ASSUME NEW a \in Nat
    PROVE  /\ a - (a % BLOCK) \in 0 .. a
           /\ (a - (a % BLOCK)) % BLOCK = 0
           /\ BLOCK % BLOCK = 0
           /\ \A b \in 0 .. a : b % BLOCK = 0 => b <= a - (a % BLOCK)
  <1>0. BLOCK \in Nat \ {0}
    BY Layout
  <1>1. PICK q \in Nat : a = BLOCK * q + (a % BLOCK)
    BY Division
  <1>2. a % BLOCK \in 0 .. BLOCK - 1 /\ a % BLOCK <= a
    BY Division
  <1> DEFINE s == a % BLOCK
  <1>3. a = BLOCK * q + s /\ s \in 0 .. BLOCK - 1 /\ s <= a
    BY <1>1, <1>2
  <1> HIDE DEF s
  <1>4. BLOCK * q \in Nat /\ a - s = BLOCK * q + 0 /\ a - s \in 0 .. a /\ 0 \in 0 .. BLOCK - 1
    BY <1>0, <1>3
  <1>5. (a - s) % BLOCK = 0
    BY <1>4, Remainder
  <1>6. BLOCK % BLOCK = 0
    BY <1>0
  <1>7. ASSUME NEW b \in 0 .. a, b % BLOCK = 0 PROVE b <= a - s
    <2>1. PICK k \in Nat : b = BLOCK * k
      BY <1>7, Multiple
    <2>2. ASSUME k >= q + 1 PROVE FALSE
      <3>1. BLOCK * k >= BLOCK * (q + 1) /\ BLOCK * (q + 1) = BLOCK * q + BLOCK
        BY <1>0, <2>2
      <3> QED
        BY <1>0, <1>3, <1>4, <2>1, <3>1
    <2>3. BLOCK * k <= BLOCK * q
      BY <1>0, <2>2
    <2> QED
      BY <1>4, <2>1, <2>3
  <1> QED
    BY <1>4, <1>5, <1>6, <1>7 DEF s

\* An update of the cipher that gets the next bytes at a whole number of blocks
\* and room for the result.
LEMMA Updated ==
    ASSUME NEW c \in Handle, NEW at \in Nat, NEW len \in Nat, NEW off \in Nat,
           at = HeaderSize + c.fed, c.fed % BLOCK = 0, off = c.out,
           off + len <= c.data_out_size
    PROVE  LET d == GcmUpdated(c, Piece(at, len), off)
           IN  /\ d \in Handle
               /\ d.fed = c.fed + len /\ d.out = c.out + len /\ d.sound = c.sound
               /\ d.state = c.state /\ d.ret = c.ret
               /\ d.binary_file_read = c.binary_file_read /\ d.cache_buf_len = c.cache_buf_len
               /\ d.cache_buf = c.cache_buf /\ d.data_out_size = c.data_out_size
               /\ d.gcm_key = c.gcm_key /\ d.binary_file_len = c.binary_file_len
               /\ d.iv = c.iv /\ d.auth_tag = c.auth_tag
  <1> DEFINE d == GcmUpdated(c, Piece(at, len), off)
  <1>1. d = [c EXCEPT !.fed = c.fed + len, !.out = c.out + len]
    BY DEF GcmUpdated, Piece, Handle
  <1>2. c.fed + len \in Nat /\ c.out + len \in Nat
    BY DEF Handle
  <1> HIDE DEF d
  <1>3. /\ d \in Handle
        /\ d.fed = c.fed + len /\ d.out = c.out + len /\ d.sound = c.sound
        /\ d.state = c.state /\ d.ret = c.ret
        /\ d.binary_file_read = c.binary_file_read /\ d.cache_buf_len = c.cache_buf_len
        /\ d.cache_buf = c.cache_buf /\ d.data_out_size = c.data_out_size
        /\ d.gcm_key = c.gcm_key /\ d.binary_file_len = c.binary_file_len
        /\ d.iv = c.iv /\ d.auth_tag = c.auth_tag
    BY <1>1, <1>2 DEF Handle
  <1> QED
    BY <1>3 DEF d

\* A call that has come to the body, with rest bytes of it, which it has counted.
Body(c, n, rest) ==
    /\ c \in Handle /\ c.sound = TRUE /\ c.ret = "RUN" /\ c.state = "DECODE"
    /\ c.out = 0 /\ c.fed = h.fed /\ c.fed % BLOCK = 0
    /\ rest \in Nat /\ n \in Nat /\ supplied \in Nat
    /\ c.curr_index + rest = n
    /\ supplied + c.curr_index = HeaderSize + c.fed + c.cache_buf_len
    /\ c.fed + c.cache_buf_len + rest = c.binary_file_read
    /\ c.binary_file_read <= file.len
    /\ c.cache_buf_len < BLOCK
    /\ c.cache_buf_len > 0 => c.cache_buf = Piece(HeaderSize + c.fed, c.cache_buf_len)
    /\ c.fed < file.len
    /\ Knows(c)

\* What a call that has reached the body leaves.
Decoded(d, n) ==
    /\ d \in Handle /\ d.sound = TRUE /\ d.state = "DECODE"
    /\ d.ret \in {"NOT_FINISHED", "OK", "NO_MEM"}
    /\ d.binary_file_len = file.len
    /\ supplied + n = HeaderSize + d.binary_file_read
    /\ d.ret = "NOT_FINISHED" => Progress(d, supplied + n) /\ d.fed = h.fed + d.data_out_len
    /\ d.ret = "OK" => d.binary_file_read = file.len /\ d.fed = file.len
                       /\ d.fed = h.fed + d.data_out_len
    /\ d.ret = "NO_MEM" => d.fed < file.len

LEMMA Counted ==
    ASSUME NEW c, NEW n, NEW rest, Given(n), Body(c, n, rest)
    PROVE  supplied + n = HeaderSize + c.binary_file_read
  <1> DEFINE i == c.curr_index
             f == c.fed
             k == c.cache_buf_len
             r == c.binary_file_read
             a == HeaderSize
  <1>1. i \in Nat /\ f \in Nat /\ k \in Nat /\ r \in Nat
    BY DEF Body, Handle
  <1>2. /\ rest \in Nat /\ n \in Nat /\ supplied \in Nat
        /\ i + rest = n /\ supplied + i = a + f + k /\ f + k + rest = r
    BY DEF Body
  <1>3. a \in Nat
    BY Layout
  <1> HIDE DEF i, f, k, r, a
  <1>4. supplied + n = a + r
    BY <1>1, <1>2, <1>3
  <1> QED
    BY <1>4 DEF a, r

\* Without memory for the result nothing is decrypted.
LEMMA Refused ==
    ASSUME NEW c, NEW n, NEW rest, Given(n), Body(c, n, rest)
    PROVE  Decoded(Return(c, "NO_MEM"), n)
  <1> DEFINE d == Return(c, "NO_MEM")
  <1>1. /\ d \in Handle /\ d.ret = "NO_MEM" /\ d.state = c.state /\ d.sound = c.sound
        /\ d.fed = c.fed /\ d.binary_file_len = c.binary_file_len
        /\ d.binary_file_read = c.binary_file_read
    BY DEF Return, Handle, Error, Body
  <1> HIDE DEF d
  <1>2. supplied + n = HeaderSize + c.binary_file_read
    BY Counted
  <1>3. Decoded(d, n)
    BY <1>1, <1>2 DEF Decoded, Body, Knows
  <1> QED
    BY <1>3 DEF d

\* The bytes in the cache, filled up with the next ones, are a piece of the binary.
LEMMA FilledUp ==
    ASSUME NEW c, NEW n, NEW rest, NEW k \in Nat, Given(n), Body(c, n, rest), k <= rest
    PROVE  c.cache_buf_len + k > 0 /\ (c.cache_buf_len = 0 => k > 0) =>
             Copied(c.cache_buf, c.cache_buf_len, Piece(supplied + c.curr_index, k))
               = Piece(HeaderSize + c.fed, c.cache_buf_len + k)
  <1>1. /\ c.cache_buf_len \in Nat /\ c.fed \in Nat /\ HeaderSize \in Nat
        /\ supplied + c.curr_index = HeaderSize + c.fed + c.cache_buf_len
        /\ c.cache_buf_len > 0 => c.cache_buf = Piece(HeaderSize + c.fed, c.cache_buf_len)
    BY Layout DEF Body, Handle
  <1>2. CASE c.cache_buf_len = 0
    BY <1>1, <1>2 DEF Copied, Piece
  <1>3. CASE c.cache_buf_len > 0
    BY <1>1, <1>3 DEF Copied, Piece
  <1> QED
    BY <1>1, <1>2, <1>3


\* The end of the binary: all that is left is decrypted.
LEMMA LastStep ==
    ASSUME NEW c, NEW n, NEW rest, NEW mem \in BOOLEAN, Given(n), Body(c, n, rest),
           c.binary_file_read = file.len
    PROVE  Decoded(LastBlocks(c, n, rest, mem), n)
  <1> DEFINE cached == c.cache_buf_len
             k == Lesser(BLOCK - cached, rest)
             at == HeaderSize + c.fed
             filled == Copied(c.cache_buf, cached, Piece(supplied + c.curr_index, k))
             a == [c EXCEPT !.data_out_size = cached + rest, !.cache_buf = filled]
             b == GcmUpdated(a, filled, 0)
             d == IF rest = k THEN b
                  ELSE GcmUpdated(b, Piece(supplied + c.curr_index + k, rest - k), BLOCK)
             e == Return([d EXCEPT !.data_out_len = cached + rest, !.cache_buf_len = 0], "OK")
  <1>0. CASE ~mem
    BY <1>0, Refused DEF LastBlocks
  <1>1. /\ cached \in Nat /\ cached < BLOCK /\ rest \in Nat /\ BLOCK \in Nat \ {0}
        /\ c.fed \in Nat /\ at \in Nat /\ c.fed + (cached + rest) = file.len /\ c.fed < file.len
        /\ supplied + c.curr_index = at + cached /\ c.fed % BLOCK = 0
        /\ file.len \in Nat
    <2>1. /\ cached \in Nat /\ cached < BLOCK /\ rest \in Nat /\ c.fed \in Nat
          /\ c.fed + cached + rest = file.len /\ c.fed < file.len
          /\ supplied + c.curr_index = HeaderSize + c.fed + cached /\ c.fed % BLOCK = 0
      BY DEF Body, Handle
    <2>2. file.len \in Nat
      BY DEF Given, File
    <2> HIDE DEF cached
    <2> QED
      BY <2>1, <2>2, Layout
  <1>2. /\ k \in Nat /\ k <= rest /\ cached + k > 0 /\ cached + k <= BLOCK
        /\ k # rest => cached + k = BLOCK
        /\ cached = 0 => k > 0
    <2> HIDE DEF cached
    <2> QED
      BY <1>1 DEF Lesser
  <1> HIDE DEF k
  <1>3. filled = Piece(at, cached + k)
    BY <1>2, FilledUp
  <1> HIDE DEF filled
  <1>4. /\ a \in Handle /\ a.sound = TRUE /\ a.fed = c.fed /\ a.out = 0
        /\ a.data_out_size = cached + rest
        /\ a.state = "DECODE" /\ a.ret = "RUN" /\ a.binary_file_read = file.len
        /\ a.binary_file_len = file.len
    <2>1. filled \in AnyPiece
      BY <1>1, <1>2, <1>3 DEF Piece, AnyPiece
    <2>2. cached + rest \in Nat
      BY <1>1
    <2> QED
      BY <2>1, <2>2 DEF Body, Handle, Knows
  <1> HIDE DEF a
  <1>5. /\ b \in Handle /\ b.sound = TRUE /\ b.fed = c.fed + (cached + k) /\ b.out = cached + k
        /\ b.data_out_size = cached + rest
        /\ b.state = "DECODE" /\ b.ret = "RUN" /\ b.binary_file_read = file.len
        /\ b.binary_file_len = file.len
    <2> DEFINE l == cached + k
    <2>0. l \in Nat /\ l <= cached + rest
      BY <1>1, <1>2
    <2>1. 0 + l <= a.data_out_size /\ l \in Nat /\ 0 \in Nat /\ 0 = a.out /\ at \in Nat
      <3> HIDE DEF l
      <3> QED
        BY <1>1, <1>4, <2>0
    <2>2. at = HeaderSize + a.fed /\ a.fed % BLOCK = 0
      BY <1>1, <1>4
    <2> HIDE DEF l, at
    <2>3. LET g == GcmUpdated(a, Piece(at, l), 0)
          IN  /\ g \in Handle
              /\ g.fed = a.fed + l /\ g.out = a.out + l /\ g.sound = a.sound
              /\ g.state = a.state /\ g.ret = a.ret
              /\ g.binary_file_read = a.binary_file_read /\ g.data_out_size = a.data_out_size
              /\ g.binary_file_len = a.binary_file_len
      BY <1>4, <2>1, <2>2, Updated
    <2>4. 0 + l = l
      BY <2>1
    <2> QED
      BY <1>3, <1>4, <2>3, <2>4 DEF b, l
  <1> HIDE DEF b
  <1>6. /\ d \in Handle /\ d.sound = TRUE /\ d.fed = file.len
        /\ d.state = "DECODE" /\ d.binary_file_read = file.len
        /\ d.binary_file_len = file.len
    <2>1. CASE rest = k
      BY <1>1, <1>5, <2>1
    <2>2. CASE rest # k
      <3>1. /\ BLOCK + (rest - k) <= b.data_out_size /\ rest - k \in Nat /\ BLOCK = b.out
            /\ supplied + c.curr_index + k = HeaderSize + b.fed
            /\ supplied + c.curr_index + k \in Nat /\ BLOCK \in Nat
            /\ b.fed + (rest - k) = file.len
        <4> HIDE DEF cached
        <4> QED
          BY <1>1, <1>2, <1>5, <2>2, Layout
      <3>2. b.fed % BLOCK = 0
        <4>1. BLOCK % BLOCK = 0
          BY <1>1, Whole
        <4> QED
          BY <1>1, <1>2, <1>5, <2>2, <4>1, Multiples
      <3> DEFINE l == rest - k
                 o == supplied + c.curr_index + k
      <3>3. /\ BLOCK + l <= b.data_out_size /\ l \in Nat /\ BLOCK = b.out
            /\ o = HeaderSize + b.fed /\ o \in Nat /\ BLOCK \in Nat
            /\ b.fed + l = file.len
        BY <3>1
      <3> HIDE DEF l, o
      <3>4. LET g == GcmUpdated(b, Piece(o, l), BLOCK)
            IN  /\ g \in Handle
                /\ g.fed = b.fed + l /\ g.sound = b.sound
                /\ g.state = b.state
                /\ g.binary_file_read = b.binary_file_read
                /\ g.binary_file_len = b.binary_file_len
        BY <1>5, <3>2, <3>3, Updated
      <3>5. d = GcmUpdated(b, Piece(o, l), BLOCK)
        BY <2>2 DEF l, o
      <3> QED
        BY <1>5, <3>3, <3>4, <3>5
    <2> QED
      BY <2>1, <2>2
  <1> HIDE DEF d
  <1>7. /\ e \in Handle /\ e.sound = TRUE /\ e.fed = file.len /\ e.ret = "OK"
        /\ e.state = "DECODE" /\ e.binary_file_read = file.len
        /\ e.binary_file_len = file.len /\ e.data_out_len = cached + rest
    <2>1. cached + rest \in Nat /\ 0 \in 0 .. ENC_GCM_KEY_SIZE
      BY <1>1, Layout
    <2> QED
      BY <1>6, <2>1 DEF Return, Handle, Error
  <1> HIDE DEF e
  <1>8. Decoded(e, n)
    BY <1>1, <1>7, Counted DEF Decoded, Body
  <1>9. CASE mem
    <2>1. LastBlocks(c, n, rest, mem) = e
      BY <1>9 DEF LastBlocks, e, d, b, a, filled, k
    <2> QED
      BY <1>8, <2>1
  <1> QED
    BY <1>0, <1>9

\* Not the end: the whole blocks there are, the filled one in the cache first, are
\* decrypted into a buffer of their size, and less than a block waits.
LEMMA BlocksStep ==
    ASSUME NEW c, NEW n, NEW rest, NEW mem \in BOOLEAN, Given(n), Body(c, n, rest),
           c.binary_file_read # file.len
    PROVE  Decoded(Blocks(c, n, rest, mem), n)
  <1> DEFINE cached == c.cache_buf_len
             whole == (cached + rest) - ((cached + rest) % BLOCK)
             k == IF cached = 0 THEN 0 ELSE Lesser(BLOCK - cached, rest)
             from == supplied + c.curr_index
             at == HeaderSize + c.fed
             filled == Copied(c.cache_buf, cached, Piece(from, k))
             a == IF whole > 0 THEN [c EXCEPT !.data_out_size = whole] ELSE c
             b == IF cached = 0 THEN a
                  ELSE GcmUpdated([a EXCEPT !.cache_buf = filled], filled, 0)
             tail == (rest - k) % BLOCK
             mid == rest - k - tail
             d == [b EXCEPT !.cache_buf_len = tail,
                            !.cache_buf = IF tail = 0 THEN @
                                          ELSE Piece(supplied + n - tail, tail)]
             e == IF mid = 0 THEN d ELSE GcmUpdated(d, Piece(from + k, mid), b.out)
             w == [a EXCEPT !.cache_buf = filled, !.cache_buf_len = cached + k,
                            !.data_out_len = 0]
             g == [e EXCEPT !.data_out_len = b.out + mid]
  <1>0. CASE whole > 0 /\ ~mem
    BY <1>0, Refused DEF Blocks
  <1>1. /\ cached \in Nat /\ cached < BLOCK /\ rest \in Nat /\ BLOCK \in Nat \ {0}
        /\ c.fed \in Nat /\ at \in Nat /\ c.binary_file_read \in Nat
        /\ c.fed + (cached + rest) = c.binary_file_read /\ c.binary_file_read < file.len
        /\ from = at + cached /\ c.fed % BLOCK = 0 /\ file.len \in Nat
        /\ supplied + n = at + (cached + rest)
    <2> DEFINE f == c.fed
               r == c.binary_file_read
    <2>1. /\ cached \in Nat /\ cached < BLOCK /\ rest \in Nat /\ f \in Nat /\ r \in Nat
          /\ f + cached + rest = r /\ r <= file.len
          /\ from = HeaderSize + f + cached /\ f % BLOCK = 0
      BY DEF Body, Handle
    <2>2. file.len \in Nat /\ r # file.len
      BY DEF Given, File
    <2>3. supplied + n = HeaderSize + r
      BY Counted
    <2>4. HeaderSize \in Nat /\ BLOCK \in Nat \ {0}
      BY Layout
    <2> HIDE DEF cached, from, f, r
    <2>5. f + (cached + rest) = r /\ supplied + n = (HeaderSize + f) + (cached + rest)
          /\ from = (HeaderSize + f) + cached /\ HeaderSize + f \in Nat /\ r < file.len
      BY <2>1, <2>2, <2>3, <2>4
    <2> QED
      BY <2>1, <2>2, <2>4, <2>5 DEF f, r
  <1>2. /\ k \in Nat /\ k <= rest /\ cached + k <= BLOCK
        /\ cached + k = BLOCK \/ k = rest \/ cached = 0
        /\ cached = 0 => k = 0
    <2> HIDE DEF cached
    <2> QED
      BY <1>1 DEF Lesser
  <1>3. /\ whole \in 0 .. cached + rest /\ whole % BLOCK = 0
        /\ \A x \in 0 .. cached + rest : x % BLOCK = 0 => x <= whole
        /\ BLOCK % BLOCK = 0
    <2>1. cached + rest \in Nat
      BY <1>1
    <2> QED
      BY <2>1, Whole
  <1> HIDE DEF k, whole
  <1>4. ASSUME cached # 0 PROVE filled = Piece(at, cached + k)
    <2>1. k \in Nat /\ k <= rest /\ cached + k > 0
      <3> HIDE DEF cached
      <3> QED
        BY <1>1, <1>2, <1>4
    <2> QED
      BY <1>4, <2>1, FilledUp
  <1> HIDE DEF filled
  <1>5. /\ a \in Handle /\ a.sound = TRUE /\ a.fed = c.fed /\ a.out = 0
        /\ whole > 0 => a.data_out_size = whole
        /\ a.state = "DECODE" /\ a.ret = "RUN" /\ a.binary_file_read = c.binary_file_read
        /\ a.binary_file_len = file.len /\ a.cache_buf_len = cached
        /\ a.gcm_key = c.gcm_key /\ a.iv = c.iv /\ a.auth_tag = c.auth_tag
    <2>1. whole \in Nat
      BY <1>1, <1>3
    <2> QED
      BY <2>1 DEF Body, Handle, Knows
  <1> HIDE DEF a
  <1>6. CASE cached # 0 /\ cached + k # BLOCK /\ ~(whole > 0 /\ ~mem)
    <2>1. k = rest /\ cached + k = cached + rest /\ cached + k < BLOCK /\ cached + k > 0
      BY <1>1, <1>2, <1>6
    <2>2. /\ filled \in AnyPiece /\ cached + k \in 0 .. ENC_GCM_KEY_SIZE /\ 0 \in Nat
      BY <1>1, <1>2, <1>4, <1>6, EncAssumption DEF Piece, AnyPiece
    <2>3. /\ w \in Handle /\ w.sound = TRUE /\ w.fed = c.fed /\ w.data_out_len = 0
          /\ w.state = "DECODE" /\ w.binary_file_read = c.binary_file_read
          /\ w.binary_file_len = file.len /\ w.cache_buf_len = cached + k
          /\ w.cache_buf = filled
          /\ w.gcm_key = c.gcm_key /\ w.iv = c.iv /\ w.auth_tag = c.auth_tag
      BY <1>5, <2>2 DEF Handle
    <2> HIDE DEF w
    <2>4. Progress(w, supplied + n)
      BY <1>1, <1>4, <1>6, <2>1, <2>3, Counted
         DEF Progress, Start, Length, Fields, Knows, Body
    <2>5. w.fed = h.fed + w.data_out_len
      BY <1>1, <2>3 DEF Body
    <2>6. Decoded(Return(w, "NOT_FINISHED"), n)
      <3> DEFINE x == Return(w, "NOT_FINISHED")
      <3>1. /\ x \in Handle /\ x.ret = "NOT_FINISHED" /\ x.state = w.state /\ x.sound = w.sound
            /\ x.fed = w.fed /\ x.data_out_len = w.data_out_len
            /\ Progress(x, supplied + n)
        BY <2>3, <2>4, Returned DEF Error
      <3>2. x.binary_file_len = w.binary_file_len /\ x.binary_file_read = w.binary_file_read
        BY <2>3 DEF Return, Handle
      <3> HIDE DEF x
      <3>3. Decoded(x, n)
        BY <2>3, <2>5, <3>1, <3>2, Counted DEF Decoded
      <3> QED
        BY <3>3 DEF x
    <2> QED
      BY <1>6, <2>6 DEF Blocks, w, a, filled, k, whole
  <1>7. ASSUME ~(whole > 0 /\ ~mem), cached = 0 \/ cached + k = BLOCK
        PROVE  Decoded(Return(g, "NOT_FINISHED"), n)
    <2> DEFINE o == cached + k
    <2>1. /\ o \in {0, BLOCK} /\ o \in Nat /\ o % BLOCK = 0
          /\ rest - k \in Nat /\ (cached + rest) = o + (rest - k)
          /\ from + k = at + o
      <3>1. 0 % BLOCK = 0
        BY <1>1
      <3> HIDE DEF cached, from, at
      <3> QED
        BY <1>1, <1>2, <1>3, <1>7, <3>1
    <2>2. /\ b \in Handle /\ b.sound = TRUE /\ b.fed = c.fed + o /\ b.out = o
          /\ whole > 0 => b.data_out_size = whole
          /\ b.state = "DECODE" /\ b.ret = "RUN" /\ b.binary_file_read = c.binary_file_read
          /\ b.binary_file_len = file.len
          /\ b.gcm_key = c.gcm_key /\ b.iv = c.iv /\ b.auth_tag = c.auth_tag
      <3>1. CASE cached = 0
        <4>1. o = 0 /\ b = a /\ c.fed + 0 = c.fed
          BY <1>1, <1>2, <3>1
        <4> QED
          BY <1>5, <4>1 DEF Body, Knows
      <3>2. CASE cached # 0
        <4> DEFINE z == [a EXCEPT !.cache_buf = filled]
        <4>1. filled = Piece(at, o) /\ o = BLOCK
          BY <1>4, <1>7, <3>2
        <4>2. filled \in AnyPiece
          BY <1>1, <2>1, <4>1 DEF Piece, AnyPiece
        <4>3. whole > 0 /\ o <= whole
          <5>1. BLOCK \in 0 .. cached + rest
            <6> HIDE DEF cached, from, at
            <6> QED
              BY <1>1, <1>2, <4>1
          <5>2. BLOCK <= whole /\ whole \in Nat
            BY <1>1, <1>3, <5>1
          <5> QED
            BY <1>1, <4>1, <5>2
        <4>4. /\ z \in Handle /\ z.sound = TRUE /\ z.fed = c.fed /\ z.out = 0
              /\ z.data_out_size = whole
              /\ z.state = "DECODE" /\ z.ret = "RUN" /\ z.binary_file_read = c.binary_file_read
              /\ z.binary_file_len = file.len
              /\ z.gcm_key = c.gcm_key /\ z.iv = c.iv /\ z.auth_tag = c.auth_tag
          BY <1>5, <4>2, <4>3 DEF Handle
        <4> HIDE DEF z
        <4>5. /\ 0 + o <= z.data_out_size /\ 0 \in Nat /\ 0 = z.out /\ at \in Nat /\ o \in Nat
              /\ at = HeaderSize + z.fed /\ z.fed % BLOCK = 0
          <5> HIDE DEF o
          <5> QED
            BY <1>1, <2>1, <4>3, <4>4
        <4> HIDE DEF o, at
        <4>6. LET u == GcmUpdated(z, Piece(at, o), 0)
              IN  /\ u \in Handle
                  /\ u.fed = z.fed + o /\ u.out = z.out + o /\ u.sound = z.sound
                  /\ u.state = z.state /\ u.ret = z.ret
                  /\ u.binary_file_read = z.binary_file_read
                  /\ u.data_out_size = z.data_out_size
                  /\ u.gcm_key = z.gcm_key /\ u.binary_file_len = z.binary_file_len
                  /\ u.iv = z.iv /\ u.auth_tag = z.auth_tag
          BY <4>4, <4>5, Updated
        <4>7. b = GcmUpdated(z, Piece(at, o), 0)
          BY <3>2, <4>1 DEF z
        <4>8. 0 + o = o
          BY <4>5
        <4> HIDE DEF b
        <4> QED
          BY <4>4, <4>6, <4>7, <4>8
      <3> QED
        BY <3>1, <3>2
    <2> HIDE DEF b
    <2> DEFINE m == rest - k
    <2>3. /\ tail \in 0 .. BLOCK - 1 /\ mid \in Nat /\ mid % BLOCK = 0
          /\ m = mid + tail
      <3>1. m \in Nat
        BY <2>1
      <3> HIDE DEF m
      <3>2. m % BLOCK \in 0 .. BLOCK - 1 /\ m - (m % BLOCK) \in 0 .. m
            /\ (m - (m % BLOCK)) % BLOCK = 0
        BY <3>1, Whole, Division
      <3> DEFINE s == m % BLOCK
      <3> HIDE DEF s
      <3>3. m = (m - s) + s /\ m - s \in Nat
        BY <1>1, <3>1, <3>2 DEF s
      <3> QED
        BY <3>2, <3>3 DEF m, s
    <2> HIDE DEF m, tail, mid
    <2>4. /\ (o + mid) % BLOCK = 0 /\ o + mid <= whole /\ whole \in Nat
          /\ c.fed + (o + mid) + tail = c.binary_file_read
          /\ supplied + n - tail = at + (o + mid)
          /\ (c.fed + (o + mid)) % BLOCK = 0
      <3>1. (o + mid) % BLOCK = 0 /\ o + mid \in Nat
        <4> HIDE DEF o
        <4> QED
          BY <2>1, <2>3, Multiples
      <3>2. cached + rest = (o + mid) + tail
        <4> HIDE DEF o, cached
        <4> QED
          BY <1>1, <2>1, <2>3 DEF m
      <3>3. o + mid <= whole /\ whole \in Nat
        <4> DEFINE x == o + mid
                   y == cached + rest
        <4>1. x \in 0 .. y /\ y \in Nat
          <5>1. x \in Nat /\ tail \in Nat /\ y = x + tail
            BY <1>1, <2>3, <3>1, <3>2
          <5> HIDE DEF x, y
          <5> QED
            BY <5>1
        <4> HIDE DEF x
        <4> QED
          BY <1>3, <3>1, <4>1 DEF x
      <3> DEFINE f == c.fed
                 r == c.binary_file_read
                 x == o + mid
                 y == cached + rest
                 v == supplied + n
      <3>4. /\ f \in Nat /\ r \in Nat /\ x \in Nat /\ tail \in Nat /\ y = x + tail
            /\ f + y = r /\ at \in Nat /\ v = at + y
        BY <1>1, <2>3, <3>1, <3>2
      <3>5. (f + x) % BLOCK = 0
        <4> HIDE DEF f, x
        <4> QED
          BY <1>1, <3>1, <3>4, Multiples DEF f, x
      <3> HIDE DEF f, r, x, y, v, at
      <3>6. f + x + tail = r /\ v - tail = at + x
        BY <3>4
      <3> HIDE DEF o
      <3>7. c.fed + (o + mid) + tail = c.binary_file_read
        BY <3>6 DEF f, r, x
      <3>8. supplied + n - tail = at + (o + mid)
        <4>1. n \in Nat /\ supplied \in Nat /\ tail \in Nat
          BY <1>1, <2>3 DEF Given
        <4>2. supplied + n - tail = v - tail
          BY <4>1 DEF v
        <4> QED
          BY <3>6, <4>2 DEF x
      <3>9. (c.fed + (o + mid)) % BLOCK = 0
        BY <3>5 DEF f, x
      <3> QED
        BY <3>1, <3>3, <3>7, <3>8, <3>9
    <2>5. /\ d \in Handle /\ d.sound = TRUE /\ d.fed = c.fed + o /\ d.out = o
          /\ whole > 0 => d.data_out_size = whole
          /\ d.state = "DECODE" /\ d.ret = "RUN" /\ d.binary_file_read = c.binary_file_read
          /\ d.binary_file_len = file.len /\ d.cache_buf_len = tail
          /\ tail > 0 => d.cache_buf = Piece(supplied + n - tail, tail)
          /\ d.gcm_key = c.gcm_key /\ d.iv = c.iv /\ d.auth_tag = c.auth_tag
      <3>1. tail \in 0 .. ENC_GCM_KEY_SIZE /\ tail \in Nat
        BY <1>1, <2>3, EncAssumption
      <3>2. tail # 0 => Piece(supplied + n - tail, tail) \in AnyPiece
        <4>1. supplied + n - tail \in Int
          <5> DEFINE x == o + mid
          <5>1. at \in Nat /\ x \in Nat /\ supplied + n - tail = at + x
            <6> HIDE DEF o, at
            <6> QED
              BY <1>1, <2>1, <2>3, <2>4
          <5> HIDE DEF x, at
          <5> QED
            BY <5>1
        <4> QED
          BY <3>1, <4>1 DEF Piece, AnyPiece
      <3> DEFINE q == IF tail = 0 THEN b.cache_buf ELSE Piece(supplied + n - tail, tail)
      <3>3. q \in AnyPiece /\ (tail > 0 => q = Piece(supplied + n - tail, tail))
        BY <2>2, <3>1, <3>2 DEF Handle
      <3>4. d = [b EXCEPT !.cache_buf_len = tail, !.cache_buf = q]
        BY <2>2 DEF Handle
      <3> HIDE DEF q, d, o
      <3> QED
        BY <2>2, <3>1, <3>3, <3>4 DEF Handle
    <2> HIDE DEF d
    <2>6. /\ e \in Handle /\ e.sound = TRUE /\ e.fed = c.fed + (o + mid)
          /\ e.state = "DECODE" /\ e.ret = "RUN" /\ e.binary_file_read = c.binary_file_read
          /\ e.binary_file_len = file.len /\ e.cache_buf_len = tail
          /\ e.cache_buf = d.cache_buf
          /\ e.gcm_key = c.gcm_key /\ e.iv = c.iv /\ e.auth_tag = c.auth_tag
      <3>1. CASE mid = 0
        <4>1. e = d /\ o + mid = o
          BY <2>1, <3>1
        <4> HIDE DEF e
        <4> QED
          BY <2>5, <4>1
      <3>2. CASE mid # 0
        <4> DEFINE p == from + k
        <4>1. whole > 0 /\ o + mid <= d.data_out_size
          <5> HIDE DEF o
          <5> QED
            BY <2>1, <2>3, <2>4, <2>5, <3>2
        <4>2. p = HeaderSize + d.fed /\ p \in Nat /\ d.fed % BLOCK = 0
          <5>1. (c.fed + o) % BLOCK = 0
            <6> HIDE DEF o
            <6> QED
              BY <1>1, <2>1, Multiples
          <5>2. HeaderSize \in Nat
            BY Layout
          <5> DEFINE f == c.fed
          <5>3. p = (HeaderSize + f) + o /\ f \in Nat
            BY <1>1, <2>1
          <5> HIDE DEF p, o, f
          <5>4. p = HeaderSize + (f + o) /\ p \in Nat
            BY <2>1, <5>2, <5>3
          <5> QED
            BY <2>5, <5>1, <5>4 DEF f
        <4> HIDE DEF p
        <4>3. o = d.out
          BY <2>5
        <4> HIDE DEF o
        <4>4. LET u == GcmUpdated(d, Piece(p, mid), o)
              IN  /\ u \in Handle
                  /\ u.fed = d.fed + mid /\ u.sound = d.sound
                  /\ u.state = d.state /\ u.ret = d.ret
                  /\ u.binary_file_read = d.binary_file_read
                  /\ u.cache_buf_len = d.cache_buf_len /\ u.cache_buf = d.cache_buf
                  /\ u.gcm_key = d.gcm_key /\ u.binary_file_len = d.binary_file_len
                  /\ u.iv = d.iv /\ u.auth_tag = d.auth_tag
          <5>1. /\ d \in Handle /\ p \in Nat /\ mid \in Nat /\ o \in Nat
                /\ p = HeaderSize + d.fed /\ d.fed % BLOCK = 0
                /\ o = d.out /\ o + mid <= d.data_out_size
            BY <2>1, <2>3, <2>5, <4>1, <4>2, <4>3
          <5> QED
            BY <5>1, Updated
        <4>5. e = GcmUpdated(d, Piece(p, mid), o)
          BY <2>2, <3>2 DEF p
        <4>6. (c.fed + o) + mid = c.fed + (o + mid)
          <5> DEFINE f == c.fed
          <5>1. f \in Nat /\ o \in Nat /\ mid \in Nat
            BY <1>1, <2>1, <2>3
          <5> HIDE DEF f
          <5>2. (f + o) + mid = f + (o + mid)
            BY <5>1
          <5> QED
            BY <5>2 DEF f
        <4> HIDE DEF e
        <4> QED
          BY <2>5, <4>4, <4>5, <4>6
      <3> QED
        BY <3>1, <3>2
    <2> HIDE DEF e
    <2>7. /\ g \in Handle /\ g.sound = TRUE /\ g.fed = c.fed + (o + mid)
          /\ g.data_out_len = o + mid
          /\ g.state = "DECODE" /\ g.ret = "RUN" /\ g.binary_file_read = c.binary_file_read
          /\ g.binary_file_len = file.len /\ g.cache_buf_len = tail
          /\ g.cache_buf = d.cache_buf
          /\ g.gcm_key = c.gcm_key /\ g.iv = c.iv /\ g.auth_tag = c.auth_tag
      <3>1. b.out + mid = o + mid /\ o + mid \in Nat
        <4> HIDE DEF o
        <4> QED
          BY <2>1, <2>2, <2>3
      <3> QED
        BY <2>6, <3>1 DEF Handle
    <2> HIDE DEF g
    <2> DEFINE x == o + mid
    <2>8. /\ x \in Nat /\ tail \in Nat /\ tail < BLOCK
          /\ c.fed + x + tail = c.binary_file_read /\ (c.fed + x) % BLOCK = 0
          /\ supplied + n - tail = HeaderSize + (c.fed + x)
      <3> DEFINE f == c.fed
                 v == supplied + n - tail
      <3>1. x \in Nat /\ v = (HeaderSize + f) + x /\ f \in Nat
        <4> HIDE DEF o
        <4> QED
          BY <1>1, <2>1, <2>3, <2>4
      <3>2. HeaderSize \in Nat
        BY Layout
      <3> HIDE DEF x, f, v
      <3>3. v = HeaderSize + (f + x)
        BY <3>1, <3>2
      <3> QED
        BY <1>1, <2>3, <2>4, <3>1, <3>3 DEF f, v, x
    <2> HIDE DEF x
    <2>9. Progress(g, supplied + n)
      <3>1. g.fed = c.fed + x /\ g.data_out_len = x
        BY <2>7 DEF x
      <3>2. g.cache_buf_len > 0 => g.cache_buf = Piece(HeaderSize + g.fed, g.cache_buf_len)
        BY <2>5, <2>7, <2>8, <3>1
      <3>3. /\ supplied + n = HeaderSize + g.binary_file_read
            /\ g.fed + g.cache_buf_len = g.binary_file_read
            /\ g.binary_file_read < file.len /\ g.cache_buf_len < BLOCK
            /\ g.fed % BLOCK = 0
        BY <1>1, <2>7, <2>8, <3>1, Counted
      <3> QED
        BY <2>7, <3>2, <3>3
           DEF Progress, Start, Length, Fields, Knows, Body
    <2>10. g.fed = h.fed + g.data_out_len
      BY <2>7 DEF Body
    <2> DEFINE z == Return(g, "NOT_FINISHED")
    <2>11. /\ z \in Handle /\ z.ret = "NOT_FINISHED" /\ z.state = g.state /\ z.sound = g.sound
           /\ z.fed = g.fed /\ z.data_out_len = g.data_out_len
           /\ Progress(z, supplied + n)
      BY <2>7, <2>9, Returned DEF Error
    <2>12. z.binary_file_len = g.binary_file_len /\ z.binary_file_read = g.binary_file_read
      BY <2>7 DEF Return, Handle
    <2> HIDE DEF z
    <2>13. Decoded(z, n)
      BY <2>7, <2>10, <2>11, <2>12, Counted DEF Decoded
    <2> QED
      BY <2>13 DEF z
  <1> QED
    BY <1>0, <1>6, <1>7 DEF Blocks, g, e, d, mid, tail, b, a, filled, k, whole

\* The last stage of a call.
LEMMA BinStep ==
    ASSUME NEW c, NEW n, NEW mem \in BOOLEAN, Given(n), Call(c, n),
           c.ret = "RUN", c.state = "DECODE", supplied + n <= HeaderSize + file.len
    PROVE  Decoded(process_bin(c, n, mem), n)
  <1> DEFINE rest == n - c.curr_index
             d == [c EXCEPT !.binary_file_read = @ + rest]
  <1>1. /\ c \in Handle /\ c.sound = TRUE /\ c.fed = h.fed
        /\ c.curr_index <= n /\ c.out = 0
        /\ supplied + c.curr_index = HeaderSize + c.binary_file_read
        /\ c.binary_file_read < file.len
        /\ Knows(c)
        /\ c.fed + c.cache_buf_len = c.binary_file_read
        /\ c.cache_buf_len < BLOCK
        /\ c.fed % BLOCK = 0
        /\ c.cache_buf_len > 0 => c.cache_buf = Piece(HeaderSize + c.fed, c.cache_buf_len)
    BY DEF Call, Progress, Start, Length
  <1>2. /\ n \in Nat /\ supplied \in Nat /\ file.len \in Nat /\ HeaderSize \in Nat
        /\ c.curr_index \in Nat /\ c.binary_file_read \in Nat
        /\ c.fed \in Nat /\ c.cache_buf_len \in Nat
    BY <1>1, Layout DEF Given, File, Handle
  <1>3. rest \in Nat /\ c.binary_file_read + rest \in Nat
    BY <1>1, <1>2
  <1>4. /\ d \in Handle /\ d.binary_file_read = c.binary_file_read + rest
        /\ d.sound = TRUE /\ d.ret = "RUN" /\ d.state = "DECODE" /\ d.out = 0
        /\ d.fed = c.fed /\ d.curr_index = c.curr_index
        /\ d.cache_buf_len = c.cache_buf_len /\ d.cache_buf = c.cache_buf
        /\ d.gcm_key = c.gcm_key /\ d.binary_file_len = c.binary_file_len
        /\ d.iv = c.iv /\ d.auth_tag = c.auth_tag
    BY <1>1, <1>3 DEF Handle
  <1> HIDE DEF d
  <1>5. /\ d.curr_index + rest = n
        /\ supplied + d.curr_index = HeaderSize + d.fed + d.cache_buf_len
        /\ d.fed + d.cache_buf_len + rest = d.binary_file_read
        /\ d.binary_file_read <= file.len
        /\ d.fed < file.len
    <2> DEFINE i == c.curr_index
               r == c.binary_file_read
               f == c.fed
               k == c.cache_buf_len
    <2>1. /\ i \in Nat /\ r \in Nat /\ f \in Nat /\ k \in Nat /\ i <= n /\ r < file.len
          /\ supplied + i = HeaderSize + r /\ f + k = r /\ rest = n - i
          /\ d.binary_file_read = r + rest /\ d.fed = f /\ d.curr_index = i /\ d.cache_buf_len = k
      BY <1>1, <1>2, <1>4
    <2> HIDE DEF i, r, f, k, rest
    <2>2. /\ i + rest = n /\ supplied + i = HeaderSize + f + k
          /\ f + k + rest = r + rest /\ r + rest <= file.len /\ f < file.len
      BY <1>2, <2>1
    <2> QED
      BY <2>1, <2>2
  <1>6. Body(d, n, rest)
    <2>1. Knows(d)
      BY <1>1, <1>4 DEF Knows
    <2> QED
      BY <1>1, <1>2, <1>3, <1>4, <1>5, <2>1 DEF Body
  <1>7. d.binary_file_len = file.len
    BY <1>4, <1>6 DEF Body, Knows
  <1> HIDE DEF rest
  <1>8. CASE d.binary_file_read # file.len
    <2>1. process_bin(c, n, mem) = Blocks(d, n, rest, mem)
      BY <1>7, <1>8 DEF process_bin, Runs, d, rest
    <2> QED
      BY <1>6, <1>8, <2>1, BlocksStep
  <1>9. CASE d.binary_file_read = file.len
    <2>1. process_bin(c, n, mem) = LastBlocks(d, n, rest, mem)
      BY <1>7, <1>9 DEF process_bin, Runs, d, rest
    <2> QED
      BY <1>6, <1>9, <2>1, LastStep
  <1> QED
    BY <1>8, <1>9

----------------------------------------------------------------------------
(* A whole call.                                                            *)

\* What a call leaves, whichever stage it ended in.
Outcome(d, n) ==
    /\ d \in Handle /\ d.sound = TRUE
    /\ d.ret \in {"NOT_FINISHED", "OK", "FAIL", "NO_MEM"}
    /\ d.ret = "NOT_FINISHED" => Progress(d, supplied + n) /\ d.fed = h.fed + d.data_out_len
    /\ d.ret = "OK" => /\ d.state = "DECODE" /\ d.binary_file_read = file.len
                       /\ d.fed = file.len /\ d.fed = h.fed + d.data_out_len
    /\ d.state = "DECODE" =>
          d.binary_file_len = file.len /\ supplied + n = HeaderSize + d.binary_file_read
    /\ d.state = "DECODE" /\ d.fed = file.len => d.ret = "OK"

LEMMA EndOfCall ==
    ASSUME NEW c, NEW n, NEW mem \in BOOLEAN, Given(n), Call(c, n),
           c.ret = "RUN" => c.state = "DECODE", supplied + n <= HeaderSize + file.len
    PROVE  Outcome(process_bin(c, n, mem), n)
  <1>1. CASE c.ret = "RUN"
    <2> DEFINE d == process_bin(c, n, mem)
    <2>1. Decoded(d, n)
      BY <1>1, BinStep
    <2> HIDE DEF d
    <2>2. d.ret = "NOT_FINISHED" => d.fed # file.len
      <3>1. ASSUME d.ret = "NOT_FINISHED" PROVE d.fed < file.len
        <4>1. /\ d.fed + d.cache_buf_len = d.binary_file_read /\ d.binary_file_read < file.len
              /\ d.fed \in Nat /\ d.cache_buf_len \in Nat
          BY <2>1, <3>1 DEF Decoded, Progress, Length, Handle
        <4> QED
          BY <4>1 DEF Given, File
      <3> QED
        BY <2>1, <3>1 DEF Decoded, Handle, Given, File
    <2>3. d.ret = "NO_MEM" => d.fed # file.len
      BY <2>1 DEF Decoded, Handle, Given, File
    <2>4. Outcome(d, n)
      BY <2>1, <2>2, <2>3 DEF Decoded, Outcome
    <2> QED
      BY <2>4 DEF d
  <1>2. CASE c.ret # "RUN"
    <2>1. process_bin(c, n, mem) = c /\ c \in Handle /\ c.sound = TRUE /\ c.fed = h.fed
      BY <1>2 DEF process_bin, Runs, Call
    <2>2. CASE c.ret = "FAIL"
      BY <2>1, <2>2 DEF Outcome, Call
    <2>3. CASE c.ret = "NOT_FINISHED"
      <3>1. Progress(c, supplied + n) /\ c.data_out_len = 0 /\ c.fed = h.fed + 0
        BY <2>1, <2>3 DEF Call, Handle
      <3>2. c.state = "DECODE" =>
              c.binary_file_len = file.len /\ supplied + n = HeaderSize + c.binary_file_read
        BY <3>1 DEF Progress, Knows, Start
      <3>3. c.state = "DECODE" => c.fed < file.len
        <4>1. ASSUME c.state = "DECODE" PROVE c.fed < file.len
          <5>1. /\ c.fed + c.cache_buf_len = c.binary_file_read /\ c.binary_file_read < file.len
                /\ c.fed \in Nat /\ c.cache_buf_len \in Nat
            BY <2>1, <3>1, <4>1 DEF Progress, Length, Handle
          <5> QED
            BY <5>1 DEF Given, File
        <4> QED
          BY <4>1
      <3>4. c.fed \in Nat /\ file.len \in Nat
        BY <2>1 DEF Handle, Given, File
      <3> QED
        BY <2>1, <2>3, <3>1, <3>2, <3>3, <3>4 DEF Outcome
    <2> QED
      BY <1>2, <2>2, <2>3 DEF Call
  <1> QED
    BY <1>1, <1>2

LEMMA Called ==
    ASSUME NEW n \in Nat, NEW mem \in BOOLEAN, Given(n), h \in Handle, h.sound = TRUE,
           Progress(h, supplied), supplied + n <= HeaderSize + file.len
    PROVE  Outcome(decrypt_data(n, mem), n)
  <1> DEFINE c0 == [h EXCEPT !.curr_index = 0, !.ret = "RUN", !.out = 0,
                             !.data_out_size = h.data_out_len]
             c1 == Magic(c0, n)
             c2 == Gcm(c1, n, mem)
             c3 == Iv(c2, n)
             c4 == BinSizeStage(c3, n)
             c5 == Auth(c4, n)
             c6 == Extra(c5, n)
  <1>0. Call(c0, n)
    <2>1. /\ c0 \in Handle /\ c0.curr_index = 0 /\ c0.ret = "RUN" /\ c0.out = 0
          /\ c0.state = h.state /\ c0.sound = TRUE /\ c0.fed = h.fed
          /\ c0.binary_file_read = h.binary_file_read
          /\ c0.cache_buf_len = h.cache_buf_len /\ c0.cache_buf = h.cache_buf
          /\ c0.gcm_key = h.gcm_key /\ c0.iv = h.iv /\ c0.auth_tag = h.auth_tag
          /\ c0.binary_file_len = h.binary_file_len /\ c0.data_out_len = h.data_out_len
      BY DEF Handle
    <2> HIDE DEF c0
    <2>2. Kept(c0) = Kept(h) /\ supplied + 0 = supplied /\ 0 <= n
      BY <2>1 DEF Kept, Given
    <2>3. Progress(c0, supplied)
      BY <2>1, <2>2 DEF Progress, Knows
    <2> QED
      BY <2>1, <2>2, <2>3 DEF Call
  <1> HIDE DEF c0
  <1>1. Call(c1, n) /\ (c1.ret = "RUN" => c1.state # "MAGIC")
    BY <1>0, MagicStep
  <1> HIDE DEF c1
  <1>2. Call(c2, n) /\ (c2.ret = "RUN" => c2.state \notin {"MAGIC", "GCM"})
    BY <1>1, GcmStep
  <1> HIDE DEF c2
  <1>3. Call(c3, n) /\ (c3.ret = "RUN" => c3.state \notin {"MAGIC", "GCM", "IV"})
    BY <1>2, IvStep
  <1> HIDE DEF c3
  <1>4. Call(c4, n) /\ (c4.ret = "RUN" => c4.state \notin {"MAGIC", "GCM", "IV", "BINSIZE"})
    BY <1>3, BinSizeStep
  <1> HIDE DEF c4
  <1>5. /\ Call(c5, n)
        /\ c5.ret = "RUN" => c5.state \notin {"MAGIC", "GCM", "IV", "BINSIZE", "AUTH"}
    BY <1>4, AuthStep
  <1> HIDE DEF c5
  <1>6. Call(c6, n) /\ (c6.ret = "RUN" => c6.state = "DECODE")
    BY <1>5, ExtraStep
  <1> HIDE DEF c6
  <1>7. Outcome(process_bin(c6, n, mem), n)
    BY <1>6, EndOfCall
  <1> QED
    BY <1>7 DEF decrypt_data, c0, c1, c2, c3, c4, c5, c6

----------------------------------------------------------------------------
(* The inductive invariant.  Nothing weaker is kept by a call: that the     *)
(* bytes of a field are those of the file needs the position, the position  *)
(* needs the length the header told, and that needs the field's bytes.      *)
Inv ==
    /\ TypeOK
    /\ h.sound = TRUE
    /\ supplied <= HeaderSize + file.len
    /\ Reading => Progress(h, supplied) /\ delivered = h.fed
    /\ phase = "open" /\ h.state = "DECODE" =>
          h.binary_file_len = file.len /\ supplied = HeaderSize + h.binary_file_read
    /\ phase = "open" /\ h.state = "DECODE" /\ h.fed = file.len =>
          err = "OK" /\ delivered = file.len

\* The plaintext handed out is the whole blocks of what was read of the body.
LEMMA Position ==
    ASSUME NEW c \in Handle, NEW pos, file \in File, Progress(c, pos)
    PROVE  /\ pos \in Nat /\ pos < HeaderSize + file.len
           /\ c.fed = Stream!Plaintext(file.len, pos)
           /\ c.fed \in 0 .. file.len - 1
  <1>1. /\ c.state \in State /\ c.binary_file_read \in Nat /\ c.fed \in Nat
        /\ c.cache_buf_len \in Nat
        /\ pos = Start(c.state) + c.binary_file_read /\ c.binary_file_read < Length(c.state)
        /\ file.len \in Nat \ {0} /\ HeaderSize \in Nat /\ BLOCK \in Nat \ {0}
    BY Layout DEF Handle, Progress, File
  <1>2. ASSUME c.state # "DECODE"
        PROVE  pos \in Nat /\ pos < HeaderSize /\ c.fed = 0
    <2>1. \A state \in State \ {"DECODE"} :
            Start(state) \in Nat /\ Length(state) \in Nat /\ Start(state) + Length(state) <= HeaderSize
      BY Layout DEF State, Start, Length
    <2>2. c.fed = 0
      BY <1>2 DEF Progress
    <2> DEFINE s == Start(c.state)
               l == Length(c.state)
               r == c.binary_file_read
    <2>3. s \in Nat /\ l \in Nat /\ s + l <= HeaderSize /\ r \in Nat /\ pos = s + r /\ r < l
      BY <1>1, <1>2, <2>1
    <2> HIDE DEF s, l, r
    <2> QED
      BY <1>1, <2>2, <2>3
  <1>3. ASSUME c.state = "DECODE"
        PROVE  /\ pos \in Nat /\ pos < HeaderSize + file.len
               /\ c.fed = Stream!Plaintext(file.len, pos)
               /\ c.fed < file.len
    <2> DEFINE r == c.binary_file_read
               f == c.fed
               k == c.cache_buf_len
    <2>1. /\ r \in Nat /\ f \in Nat /\ k \in 0 .. BLOCK - 1 /\ f + k = r /\ r < file.len
          /\ pos = HeaderSize + r /\ f % BLOCK = 0
      BY <1>1, <1>3 DEF Progress, Start, Length
    <2> HIDE DEF r, f, k
    <2>2. PICK q \in Nat : f = BLOCK * q
      BY <2>1, Multiple
    <2>3. r % BLOCK = k
      BY <2>1, <2>2, Remainder
    <2>4. pos \in Nat /\ pos < HeaderSize + file.len /\ pos - HeaderSize = r /\ f = r - k
          /\ f < file.len
      BY <1>1, <2>1
    <2>5. f = Stream!Plaintext(file.len, pos)
      <3>1. CASE pos <= HeaderSize
        <4>1. r = 0 /\ f = 0
          BY <1>1, <2>1, <3>1
        <4> QED
          BY <1>1, <2>4, <3>1, <4>1 DEF Stream!Plaintext
      <3>2. CASE ~(pos <= HeaderSize)
        BY <1>1, <2>3, <2>4, <3>2 DEF Stream!Plaintext
      <3> QED
        BY <3>1, <3>2
    <2> QED
      BY <2>4, <2>5 DEF f
  <1>4. ASSUME c.state # "DECODE" PROVE c.fed = Stream!Plaintext(file.len, pos)
    BY <1>1, <1>2, <1>4 DEF Stream!Plaintext
  <1>5. c.fed < file.len /\ pos \in Nat /\ pos < HeaderSize + file.len
    <2>1. CASE c.state = "DECODE"
      BY <1>3, <2>1
    <2>2. CASE c.state # "DECODE"
      BY <1>1, <1>2, <2>2
    <2> QED
      BY <2>1, <2>2
  <1> QED
    BY <1>1, <1>3, <1>4, <1>5

\* A handle just allocated has read nothing.
LEMMA Opened ==
    /\ FreshHandle \in Handle /\ FreshHandle.sound = TRUE
    /\ FreshHandle.fed = 0 /\ FreshHandle.state = "MAGIC"
    /\ Progress(FreshHandle, 0) /\ Progress(FreshHandle, 0)'
  <1>1. 0 \in 0 .. ENC_GCM_KEY_SIZE /\ MAGIC_SIZE > 0
    BY Layout
  <1> QED
    BY <1>1 DEF FreshHandle, Handle, State, Error, AnyPiece, Piece, Torn, Progress, Knows,
                Start, Length, Fields

\* What a call of decrypt_data does to the caller's counts.
LEMMA CallStep ==
    ASSUME Inv, NEW n \in 0 .. HeaderSize + MaxLen, NEW mem \in BOOLEAN, DecryptData(n, mem)
    PROVE  /\ h' \in Handle /\ h'.sound = TRUE /\ supplied' = supplied + n
           /\ n \in Nat /\ supplied \in Nat
           /\ file \in File /\ file' = file /\ phase = "open" /\ phase' = "open" /\ Reading
           /\ err' \in {"NOT_FINISHED", "OK", "FAIL", "NO_MEM"}
           /\ supplied' <= HeaderSize + file.len
           /\ err' = "NOT_FINISHED" => Progress(h', supplied') /\ delivered' = h'.fed
           /\ err' = "OK" => /\ delivered' = file.len /\ h'.state = "DECODE"
                             /\ supplied' = HeaderSize + file.len
           /\ err' \in {"FAIL", "NO_MEM"} => delivered' = delivered
           /\ delivered \in 0 .. file.len - 1
           /\ h'.state = "DECODE" =>
                 h'.binary_file_len = file.len /\ supplied' = HeaderSize + h'.binary_file_read
           /\ h'.state = "DECODE" /\ h'.fed = file.len => err' = "OK"
  <1>1. /\ h \in Handle /\ h.sound = TRUE /\ Progress(h, supplied) /\ delivered = h.fed
        /\ file \in File /\ supplied \in Nat /\ n \in Nat /\ Reading
        /\ supplied + n <= HeaderSize + file.len
        /\ h' = decrypt_data(n, mem) /\ err' = h'.ret /\ supplied' = supplied + n
        /\ file' = file /\ phase = "open" /\ phase' = "open"
        /\ delivered' = IF err' \in {"OK", "NOT_FINISHED"} THEN delivered + h'.data_out_len
                                                           ELSE delivered
    BY Layout DEF Inv, TypeOK, DecryptData, Reading
  <1>2. Outcome(h', n)
    <2>1. Outcome(decrypt_data(n, mem), n)
      BY <1>1, Called DEF Given
    <2> QED
      BY <1>1, <2>1
  <1>3. delivered \in 0 .. file.len - 1
    BY <1>1, Position
  <1> QED
    BY <1>1, <1>2, <1>3 DEF Outcome

\* Every step keeps the invariant.
LEMMA StepInv ==
    ASSUME Inv, [Next]_vars
    PROVE  Inv'
  <1>1. ASSUME NEW n \in 0 .. HeaderSize + MaxLen, NEW mem \in BOOLEAN, DecryptData(n, mem)
        PROVE  Inv'
    <2>1. /\ h' \in Handle /\ h'.sound = TRUE /\ supplied' = supplied + n
          /\ n \in Nat /\ supplied \in Nat
          /\ file \in File /\ file' = file /\ phase' = "open"
          /\ err' \in {"NOT_FINISHED", "OK", "FAIL", "NO_MEM"}
          /\ supplied' <= HeaderSize + file.len
          /\ err' = "NOT_FINISHED" => Progress(h', supplied') /\ delivered' = h'.fed
          /\ err' = "OK" => /\ delivered' = file.len /\ h'.state = "DECODE"
                            /\ supplied' = HeaderSize + file.len
          /\ err' \in {"FAIL", "NO_MEM"} => delivered' = delivered
          /\ delivered \in 0 .. file.len - 1
          /\ h'.state = "DECODE" =>
                h'.binary_file_len = file.len /\ supplied' = HeaderSize + h'.binary_file_read
          /\ h'.state = "DECODE" /\ h'.fed = file.len => err' = "OK"
      BY <1>1, CallStep
    <2>2. file.len \in Nat /\ file.len <= MaxLen /\ MaxLen \in Nat /\ HeaderSize \in Nat
      BY <2>1, Layout, EncAssumption DEF File
    <2>3. err' = "NOT_FINISHED" => delivered' \in 0 .. file.len - 1
      BY <2>1, Position
    <2>4. TypeOK'
      <3>1. delivered' \in 0 .. MaxLen
        BY <2>1, <2>2, <2>3
      <3>2. supplied' \in 0 .. HeaderSize + MaxLen
        <4>1. supplied' \in Nat
          BY <2>1
        <4> QED
          BY <2>1, <2>2, <4>1
      <3> QED
        BY <2>1, <3>1, <3>2 DEF TypeOK, Error
    <2>5. (Reading => Progress(h, supplied))'
      <3>1. Reading' => err' = "NOT_FINISHED"
        BY <2>1 DEF Reading
      <3>2. err' = "NOT_FINISHED" => Progress(h, supplied)'
        BY <2>1 DEF Progress, Knows, Kept, Start, Length
      <3> QED
        BY <3>1, <3>2
    <2> QED
      BY <2>1, <2>4, <2>5 DEF Inv, Reading
  <1>2. CASE DecryptEnd
    BY <1>2 DEF DecryptEnd, Inv, TypeOK, Reading, Error
  <1>3. CASE DecryptAbort
    BY <1>3 DEF DecryptAbort, Inv, TypeOK, Reading, Error
  <1>4. CASE DecryptStart
    <2>1. file' \in File /\ supplied' = 0 /\ delivered' = 0 /\ h' = FreshHandle /\ err' = "NONE"
          /\ phase' = "open"
      BY <1>4 DEF DecryptStart
    <2>2. /\ h' \in Handle /\ h'.sound = TRUE /\ h'.fed = 0 /\ h'.state = "MAGIC"
          /\ Progress(h, supplied)'
      <3>1. Progress(h, supplied)'
        BY <2>1, Opened DEF Progress, Knows, Kept, Start, Length
      <3> QED
        BY <2>1, <3>1, Opened
    <2>3. /\ 0 \in 0 .. HeaderSize + MaxLen /\ 0 \in 0 .. MaxLen
          /\ 0 <= HeaderSize + file'.len
      BY <2>1, Layout, EncAssumption DEF File
    <2> QED
      BY <2>1, <2>2, <2>3 DEF Inv, TypeOK, Reading, Error
  <1>5. CASE UNCHANGED vars
    BY <1>5 DEF vars, Inv, TypeOK, Reading, Progress, Knows, Kept, Start, Length
  <1> QED
    BY <1>1, <1>2, <1>3, <1>4, <1>5 DEF Next

LEMMA Invariant == Spec => []Inv
  <1>1. Init => Inv
    <2> SUFFICES ASSUME Init PROVE Inv
      OBVIOUS
    <2>1. 0 \in 0 .. HeaderSize + MaxLen /\ 0 \in 0 .. MaxLen /\ 0 <= HeaderSize + file.len
      BY Layout, EncAssumption DEF File, Init
    <2> QED
      BY <2>1, Opened DEF Init, Inv, TypeOK, Reading, Error
  <1>2. Inv /\ [Next]_vars => Inv'
    BY StepInv
  <1>3. QED
    BY <1>1, <1>2, PTL DEF Spec

----------------------------------------------------------------------------
(* The theorems.                                                            *)

\* However the file is cut and whichever call fails, every variable stays in its
\* type: the cache that decrypt_start allocated is never filled beyond its size.
THEOREM Typing == Spec => []TypeOK
  <1>1. Inv => TypeOK
    BY DEF Inv
  <1>2. QED
    BY <1>1, Invariant, PTL

\* The decoder knows where in the file it is after every call, and keeps what it
\* has read of a field.
THEOREM KnowsPosition == Spec => []PositionInv
  <1>1. Inv => PositionInv
    BY DEF Inv, PositionInv, Progress, Fields
  <1>2. QED
    BY <1>1, Invariant, PTL

\* The cipher gets every byte of the binary once and in order, whole blocks at a
\* time, with the key, vector and tag of the file, into buffers large enough.
THEOREM FeedsCipher == Spec => []CipherInv
  <1>1. Inv => CipherInv
    BY DEF Inv, CipherInv, Progress, Knows
  <1>2. QED
    BY <1>1, Invariant, PTL

\* is_complete_data_received tells, once the body was begun, if all was supplied.
THEOREM TellsComplete == Spec => []CompleteIsSupplied
  <1>1. ASSUME Inv PROVE CompleteIsSupplied
    <2> SUFFICES ASSUME phase = "open", h.state = "DECODE"
                 PROVE  is_complete_data_received <=> supplied = HeaderSize + file.len
      BY DEF CompleteIsSupplied
    <2>1. /\ h.binary_file_len = file.len /\ supplied = HeaderSize + h.binary_file_read
          /\ file.len \in Nat /\ h.binary_file_read \in Nat /\ HeaderSize \in Nat
      BY <1>1, Layout DEF Inv, TypeOK, Handle, File
    <2> QED
      BY <2>1 DEF is_complete_data_received
  <1>2. QED
    BY <1>1, Invariant, PTL

\* What decrypt_end accepts after the body was begun is a genuine file, supplied and
\* handed out to the last byte.
THEOREM AcceptsWhole == Spec => AcceptedIsWhole
  <1>1. ASSUME Inv, [Next]_vars
        PROVE  [DecryptEnd /\ h.state = "DECODE" /\ err' = "OK" =>
                  file.authentic /\ delivered = file.len /\ supplied = HeaderSize + file.len]_vars
    <2>1. ASSUME DecryptEnd, h.state = "DECODE", err' = "OK"
          PROVE  file.authentic /\ delivered = file.len /\ supplied = HeaderSize + file.len
      <3>1. EndAccepts
        BY <2>1 DEF DecryptEnd
      <3> QED
        BY <1>1, <2>1, <3>1 DEF DecryptEnd, EndAccepts, Inv
    <2> QED
      BY <2>1
  <1>2. QED
    BY <1>1, Invariant, PTL DEF Spec, AcceptedIsWhole

\* The decoder implements the stream: every call that succeeds leaves the caller
\* with what the stream promises for the bytes supplied so far.
THEOREM ImplementsStream == Spec => IsStream
  <1>1. Init => Stream!Fresh
    BY DEF Init, Stream!Fresh, Reading, File
  <1>2. ASSUME Inv, [Next]_vars
        PROVE  [Stream!StreamNext]_(Stream!streamVars)
    <2>1. ASSUME NEW n \in 0 .. HeaderSize + MaxLen, NEW mem \in BOOLEAN, DecryptData(n, mem)
          PROVE  Stream!StreamNext
      <3>1. /\ h' \in Handle /\ supplied' = supplied + n
            /\ n \in Nat /\ supplied \in Nat
            /\ file \in File /\ file' = file /\ phase = "open" /\ phase' = "open" /\ Reading
            /\ err' \in {"NOT_FINISHED", "OK", "FAIL", "NO_MEM"}
            /\ supplied' <= HeaderSize + file.len
            /\ err' = "NOT_FINISHED" => Progress(h', supplied') /\ delivered' = h'.fed
            /\ err' = "OK" => delivered' = file.len /\ supplied' = HeaderSize + file.len
            /\ err' \in {"FAIL", "NO_MEM"} => delivered' = delivered
        BY <1>2, <2>1, CallStep
      <3>2. supplied' \in supplied .. HeaderSize + file.len
        <4>1. file.len \in Nat /\ HeaderSize \in Nat
          BY <3>1, Layout DEF File
        <4> QED
          BY <3>1, <4>1
      <3>3. CASE err' = "NOT_FINISHED"
        <4>1. Reading' /\ supplied' # HeaderSize + file.len
              /\ delivered' = Stream!Plaintext(file.len, supplied')
          <5>1. /\ supplied' \in Nat /\ supplied' < HeaderSize + file.len
                /\ h'.fed = Stream!Plaintext(file.len, supplied')
            BY <3>1, <3>3, Position
          <5>2. HeaderSize + file.len \in Nat
            BY <3>1, Layout DEF File
          <5> QED
            BY <3>1, <3>3, <5>1, <5>2 DEF Reading
        <4> QED
          BY <3>1, <3>2, <4>1 DEF Stream!StreamNext, Stream!Supply, Reading
      <3>4. CASE err' = "OK"
        <4>1. delivered' = Stream!Plaintext(file.len, supplied')
          BY <3>1, <3>4 DEF Stream!Plaintext
        <4> QED
          BY <3>1, <3>2, <3>4, <4>1 DEF Stream!StreamNext, Stream!Supply, Reading
      <3>5. CASE err' \in {"FAIL", "NO_MEM"}
        BY <3>1, <3>2, <3>5 DEF Stream!StreamNext, Stream!Fail, Reading
      <3> QED
        BY <3>1, <3>3, <3>4, <3>5
    <2>2. CASE DecryptEnd
      BY <2>2 DEF DecryptEnd, Stream!StreamNext, Stream!Close, Reading
    <2>3. CASE DecryptAbort
      BY <2>3 DEF DecryptAbort, Stream!StreamNext, Stream!Close, Reading
    <2>4. CASE DecryptStart
      BY <2>4 DEF DecryptStart, Stream!StreamNext, Stream!Open, Reading, File
    <2>5. CASE UNCHANGED vars
      BY <2>5 DEF vars, Stream!streamVars, Reading
    <2> QED
      BY <1>2, <2>1, <2>2, <2>3, <2>4, <2>5 DEF Next
  <1>3. QED
    BY <1>1, <1>2, Invariant, PTL DEF Spec, IsStream, Stream!StreamSpec
=============================================================================
