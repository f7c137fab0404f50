--------------------------- MODULE ChecksumTable ---------------------------
(***************************************************************************)
(* The literals of kCRC32X64NTable (src/src/common/checksum_impl.cc), each  *)
(* as its upper and its lower 16 bits: TLC's integers have 32 bits with the *)
(* sign.  Row i, column k is to be x to the power 8 * k * 64^i modulo the   *)
(* polynomial of CRC-32C.                                                   *)
(***************************************************************************)
EXTENDS Integers, Sequences

Halves == <<
    \h8000, \h0000, \h0080, \h0000, \h0000, \h8000, \h0000, \h0080,
    \h82f6, \h3b78, \hfbc3, \hfaf9, \h8b27, \h7743, \h52a0, \hc93f,
    \h6ea2, \hd55c, \h1c08, \hb7d6, \hf56e, \h0ef4, \h3401, \h9664,
    \ha668, \h05eb, \h7a1f, \h6b24, \he75d, \h06aa, \hc94e, \hc098,
    \h18b8, \hea18, \h9a9f, \h274a, \h2a03, \haaa3, \hb131, \h45f8,
    \h7906, \h06ff, \had04, \h5557, \h8542, \hba6d, \hde6b, \h9d0b,
    \h9957, \hc0a6, \h8473, \h058e, \h2e0a, \hf75a, \h3ae9, \hf81c,
    \h5d27, \he147, \h95ec, \h5eb6, \h9421, \h797f, \h2f1f, \h4950,
    \h510a, \hc59a, \hf91b, \hdeea, \h882b, \h9bfc, \hbea5, \h8b3e,
    \h9c25, \h531d, \hafea, \haeef, \hbd8c, \h7e90, \h9215, \h7069,
    \h19e6, \h5dde, \h7fb2, \hb8d1, \h21c7, \hd010, \h107f, \h00bf,
    \hec16, \h31ed, \h5cf4, \hf2f8, \h79eb, \hc348, \hcbdb, \haeb0,
    \hb2de, \ha967, \hb5be, \h2920, \h2008, \h30f7, \h2784, \h03ae,
    \h0e14, \h8e82, \h63c3, \h5f01, \hf208, \h405c, \h1c94, \h1d43,
    \h5237, \h7a55, \h6486, \hf9b5, \h8780, \he02c, \h6d79, \hc1ee,
    \h4f25, \h6efc, \hbe62, \h85cb, \h5aba, \hef7a, \h1a20, \hc6da,
    \h8000, \h0000, \hb82b, \he955, \hb8fd, \hb1e7, \h18e4, \ha304,
    \h88e5, \h6f72, \h9030, \ha49c, \h67db, \h2c4a, \he744, \hdcb2,
    \h74c3, \h60a4, \h8e99, \h06a7, \hb469, \h724f, \h24d8, \h4074,
    \h631b, \hb273, \hee2a, \h2d56, \h654f, \h84e7, \h6290, \h69c6,
    \he417, \h2b16, \hd3cb, \h2137, \h4f47, \hbf52, \h3520, \h2632,
    \h7189, \h2b1b, \hd272, \h85db, \h69c2, \haf09, \hd271, \h158e,
    \h8353, \h05c9, \heaa5, \h00ac, \h0e36, \ha726, \h4695, \h1631,
    \h196b, \h1eae, \h584e, \ha70d, \h15e8, \h653c, \hb5a6, \h5826,
    \h0d65, \h762a, \hebfc, \hce28, \he6ae, \hf08f, \h013e, \he85b,
    \hafc8, \h1338, \h61c3, \h0b85, \he31e, \h7f5b, \h5e37, \h50cd,
    \hb5a5, \h0ab7, \h1977, \hc75d, \h46bf, \h959e, \he78c, \hd046,
    \hf373, \hc3ac, \h9509, \h79dd, \he31b, \h4008, \hc726, \hc863,
    \h5f60, \h970f, \hf977, \hf383, \h9e7b, \h1c10, \hea21, \h10f8,
    \hd46d, \h3063, \he222, \h0529, \hebd5, \h9d26, \hedbe, \h69a1,
    \h3a52, \h75ea, \h1a2b, \hbe21, \hd597, \had7e, \hcb8c, \h45a6,
    \h0233, \h1c01, \he863, \h9712, \ha957, \hc550, \hbcfd, \ha51c,
    \h8000, \h0000, \h35d7, \h3a62, \h2846, \h1564, \h43ee, \hfc9f,
    \hbf45, \h5269, \h5edc, \hdeb9, \h6505, \h9450, \h4e6f, \h41a4,
    \he2ea, \h32dc, \hf5b9, \h5b32, \h695a, \h4c87, \hf204, \h502c,
    \h9a4f, \h01b6, \h941a, \h0916, \h4303, \hcb97, \h4c3d, \h3d65,
    \hfe77, \h40e6, \hf0cb, \h95d2, \hab4c, \h722a, \hba35, \he2e1,
    \h9956, \h9602, \h2940, \h60e6, \hd65a, \h1d78, \h1810, \h3ff9,
    \h78b5, \h7ca2, \h97b3, \ha098, \h30a8, \hedff, \h3fb4, \he611,
    \h999d, \hcda1, \hd9dd, \h2e27, \h5918, \hf954, \h8ee7, \h3513,
    \hf946, \h610b, \ha5f4, \h742d, \h424b, \h8555, \hd017, \hc143,
    \hc274, \hd1e2, \h0280, \hb04e, \hd25b, \hb5e0, \h552a, \h0918,
    \hf594, \h2afb, \h55d7, \ha3f8, \hd1b5, \h33ee, \h9fa8, \hdef5,
    \h24c4, \h2589, \h5988, \hdbb3, \ha7e1, \hcab4, \hebae, \he1b4,
    \ha0a5, \h1f5f, \hbd1a, \h9096, \h1ced, \h05cc, \h6748, \he206,
    \h5064, \h31b0, \h6c39, \h9e24, \h30af, \h367f, \h129e, \he2f5,
    \h8fd5, \h7416, \h85ee, \h5ed0, \h9750, \h4a07, \h52e7, \h10c7,
    \h4ea3, \he89b, \hde85, \h67b5, \hb5c8, \h4194, \h8052, \h6793,
    \h8000, \h0000, \h3c20, \h4f8f, \h5385, \h86e3, \h6839, \h88b2,
    \h5972, \h6915, \h30c6, \h966d, \h5be8, \hb36e, \h42c5, \h623c,
    \h734d, \h5309, \h1084, \hfed0, \h68a5, \hf0f9, \h1573, \hfe60,
    \hdb1b, \h3315, \he0a8, \h2539, \he5c3, \h04f7, \hce80, \h68d1,
    \hbc1a, \hc763, \h4751, \h4f16, \hf7f9, \h19a7, \h5005, \ha217,
    \h11b3, \h1f9d, \h496f, \h21b8, \h0bc2, \ha806, \hbba3, \h9916,
    \h5414, \hbce3, \h401f, \h0313, \he0ee, \h85d5, \h4fb6, \hf7ac,
    \h54f2, \hf77b, \h7382, \h79cb, \h6b64, \h5133, \h05a4, \h4de1,
    \h7d07, \h22cc, \h8ca9, \hc7c7, \h5080, \h6311, \h58ba, \h16a0,
    \hbae7, \h0d08, \hde3a, \h8229, \h6652, \ha6cc, \h36b6, \h490b,
    \h238a, \hcb2b, \he3f9, \ha08b, \h23a7, \h923f, \hb060, \h9b9b,
    \hd207, \h4e2b, \h342f, \h6e39, \h5bcf, \h2cf2, \h8096, \h907d,
    \h546d, \hfa6e, \h7533, \h7ed4, \h9c1d, \he396, \h91e7, \hafe7,
    \h3f76, \ha96c, \h0003, \h2b5e, \h1a2a, \h93d0, \h3b0c, \h8728,
    \ha3aa, \h3946, \h9b17, \h0192, \hcc33, \he9f6, \h4152, \hbdb8,
    \hf054, \hca48, \h0369, \hfe6a, \h6ec7, \hbef8, \h3fe8, \hb9ff,
    \h8000, \h0000, \hd289, \hcabe, \he94c, \ha9bc, \h6ac5, \h538f,
    \h05b7, \h4f3f, \h9e0b, \h2298, \h14de, \h47cd, \h3a9f, \hb07d,
    \ha51e, \h1f42, \hfe57, \h8179, \h038d, \h778c, \h5fe3, \hcf44,
    \hb7c6, \h4e40, \h20cb, \hb8e3, \h4f04, \hf803, \h5674, \h5358,
    \h4000, \h0000, \h6944, \he55f, \h74a6, \h54de, \hb794, \h92bf,
    \h802d, \h9ce7, \h4f05, \h914c, \h8899, \h189e, \h9fb9, \he346,
    \h528f, \h0fa1, \hfddd, \hfbc4, \h01c6, \hbbc6, \h2ff1, \he7a2,
    \h5be3, \h2720, \h9293, \he709, \ha574, \h4779, \h2b3a, \h29ac,
    \h2000, \h0000, \hb654, \h49d7, \h3a53, \h2a6f, \hd93c, \h7227,
    \hc2e0, \hf50b, \h2782, \hc8a6, \h444c, \h8c4f, \h4fdc, \hf1a3,
    \habb1, \hbca8, \h7eee, \hfde2, \h00e3, \h5de3, \h17f8, \hf3d1,
    \h2df1, \h9390, \hcbbf, \hc8fc, \hd04c, \h18c4, \h159d, \h14d6,
    \h1000, \h0000, \hd9dc, \h1f93, \h9fdf, \hae4f, \hee68, \h026b,
    \he386, \h41fd, \h13c1, \h6453, \ha0d0, \h7d5f, \ha518, \h43a9,
    \h55d8, \hde54, \h3f77, \h7ef1, \h8287, \h9589, \h890a, \h4290,
    \h16f8, \hc9c8, \h65df, \he47e, \h6826, \h0c62, \h0ace, \h8a6b,
    \h8000, \h0000, \h0800, \h0000, \h0080, \h0000, \h0008, \h0000>>
=============================================================================
